---- MODULE Spec2Model ----
(***************************************************************************)
(* A model of json-db (src/lib/db.js): the in-memory document store, its   *)
(* query validator and evaluator, the projection and update engines and    *)
(* the JsonDB collection API that orchestrates them.                       *)
(*                                                                         *)
(* JavaScript values are tagged records: t is the tag and n, s, a, m, e    *)
(* hold the payload of a number or boolean, a string, an array, a mapping  *)
(* and an object literal with ordered keys.                                *)
(* Documents (and mappings nested in them) are unordered mappings from     *)
(* field names to values: the order of the fields inside one document is   *)
(* not observable through deep equality and is abstracted away.  Objects   *)
(* whose key order drives the control flow (queries, operator sets,        *)
(* updates, projections, options) are ordered sequences of <<key, value>>  *)
(* pairs, tag "entries".  The store keeps the order of its keys.           *)
(***************************************************************************)
EXTENDS Integers, Sequences, FiniteSets, TLC

VARIABLES docMap,    \* JsonDB.docMap: [docs : id -> document, order : the keys as created]
          ctorProps, \* own properties that updates created on the inherited Object constructor
          call,      \* the last API call: its name, arguments and returned value
          handed,    \* ids of the stored documents whose reference the last call gave to caller code
          written,   \* the snapshot the last call handed to writeAndForget, or Undefined
          dbDir,     \* the module's dbDir: "" until initDb names the directory
          files,     \* the content of <dbDir>/<name>.json for every database name
          dbHolder,  \* the module's dbHolder: database name -> index of its store in stores
          stores,    \* the store objects that getDb created, in the order of their creation
          handles    \* the JsonDB objects that getDb returned: [dbName, docMap : index in stores]

registry == <<dbDir, files, dbHolder, stores, handles>>

vars == <<docMap, ctorProps, call, handed, written, dbDir, files, dbHolder, stores, handles>>

----------------------------------------------------------------------------
(* Bounds of the model *)

MaxDocs == 2

MaxVal == 2

----------------------------------------------------------------------------
(* The value model *)

\* The record of a value: every value has every field, so that two values of
\* different tags can be compared
Value(t, n, s, a, m, e) == [t |-> t, n |-> n, s |-> s, a |-> a, m |-> m, e |-> e]

EmptyMap == [k \in {} |-> 0]

Undefined == Value("undefined", 0, "", <<>>, EmptyMap, <<>>)

Null == Value("null", 0, "", <<>>, EmptyMap, <<>>)

Num(n) == Value("number", n, "", <<>>, EmptyMap, <<>>)

Str(s) == Value("string", 0, s, <<>>, EmptyMap, <<>>)

Bool(b) == Value("boolean", IF b THEN 1 ELSE 0, "", <<>>, EmptyMap, <<>>)

Arr(a) == Value("array", 0, "", a, EmptyMap, <<>>)

Obj(m) == Value("object", 0, "", <<>>, m, <<>>)

Fn(name) == Value("function", 0, name, <<>>, EmptyMap, <<>>)

Entries(es) == Value("entries", 0, "", <<>>, EmptyMap, es)

Throw(e) == Value("throw", 0, e, <<>>, EmptyMap, <<>>)

IsThrow(r) == r.t = "throw"

\* typeof
TypeOf(x) ==
    CASE x.t \in {"null", "array", "object", "entries"} -> "object"
      [] OTHER -> x.t

\* Array.isArray
IsArray(x) == x.t = "array"

\* ToBoolean, as applied by !x, x ? a : b and if (x)
Truthy(x) ==
    CASE x.t \in {"undefined", "null"} -> FALSE
      [] x.t = "boolean" -> x.n = 1
      [] x.t = "number" -> x.n # 0
      [] x.t = "string" -> x.s # ""
      [] OTHER -> TRUE

\* a === b: by value for primitives, by reference for objects; the objects a
\* query or an update carries are never the objects a document holds
StrictEquals(a, b) ==
    /\ a.t \in {"undefined", "null", "boolean", "number", "string"}
    /\ a = b

\* The names every plain object inherits from Object.prototype
ObjectPrototypeKeys ==
    {"constructor", "toString", "toLocaleString", "valueOf", "hasOwnProperty",
     "isPrototypeOf", "propertyIsEnumerable", "__proto__",
     "__defineGetter__", "__defineSetter__", "__lookupGetter__", "__lookupSetter__"}

\* obj[key] on a plain object whose own properties are the mapping m: an own
\* property first, then the prototype chain
GetProp(m, key) ==
    IF key \in DOMAIN m THEN m[key]
    ELSE IF key = "__proto__" THEN Obj(EmptyMap)
    ELSE IF key = "constructor" THEN Fn("Object")
    ELSE IF key \in ObjectPrototypeKeys THEN Fn(key)
    ELSE Undefined

\* m with m[key] = val
SetProp(m, key, val) == [k \in DOMAIN m \cup {key} |-> IF k = key THEN val ELSE m[k]]

\* m after delete m[key]
DeleteProp(m, key) == [k \in DOMAIN m \ {key} |-> m[k]]

\* structuredClone: a deep copy, equal in value; a function cannot be cloned
structuredClone(x) == IF x.t = "function" THEN Throw("DataCloneError") ELSE x

----------------------------------------------------------------------------
(* The store object: a plain object used as a map from id to document.     *)
(* docs holds the properties and order the keys in the order of their      *)
(* creation.  OrdinaryOwnPropertyKeys lists the keys that are array        *)
(* indices first, in ascending numeric order, then the other keys in       *)
(* creation order.                                                         *)

\* The numeric value of a key that is a canonical array index, else -1
ArrayIndexValue(key) ==
    CASE key = "0" -> 0 [] key = "1" -> 1 [] key = "2" -> 2 [] key = "3" -> 3
      [] key = "4" -> 4 [] key = "5" -> 5 [] key = "6" -> 6 [] key = "7" -> 7
      [] key = "8" -> 8 [] key = "9" -> 9 [] OTHER -> -1

IsArrayIndex(key) == ArrayIndexValue(key) >= 0

RECURSIVE AscendingKeys(_)
AscendingKeys(S) ==
    IF S = {} THEN <<>>
    ELSE LET m == CHOOSE k \in S : \A j \in S : ArrayIndexValue(k) <= ArrayIndexValue(j)
         IN  <<m>> \o AscendingKeys(S \ {m})

IsNamedKey(key) == ~IsArrayIndex(key)

\* Object.keys(db) if it listed no array-index key: the fault C8 excludes
NamedKeys(db) == SelectSeq(db.order, IsNamedKey)

\* Object.keys(db)
ObjectKeys(db) ==
    AscendingKeys({k \in DOMAIN db.docs : IsArrayIndex(k)}) \o SelectSeq(db.order, IsNamedKey)

\* db[id]
DbGet(db, id) == GetProp(db.docs, id)

\* db[id] = doc
DbSet(db, id, doc) ==
    [docs  |-> SetProp(db.docs, id, doc),
     order |-> IF id \in DOMAIN db.docs THEN db.order ELSE Append(db.order, id)]

\* delete db[id]
DbDelete(db, id) ==
    [docs  |-> DeleteProp(db.docs, id),
     order |-> SelectSeq(db.order, LAMBDA k : k # id)]

EmptyDb == [docs |-> EmptyMap, order |-> <<>>]

----------------------------------------------------------------------------
(* Strings: the operations the operators need, on the UTF-16 code units    *)

\* The code units of the strings the model draws
CharCodes(s) ==
    CASE s = ""    -> <<>>
      [] s = "a"   -> <<97>>
      [] s = "b"   -> <<98>>
      [] s = "1"   -> <<49>>
      [] s = "2"   -> <<50>>
      [] s = "3"   -> <<51>>
      [] s = "ba"  -> <<98, 97>>
      [] s = "BA"  -> <<66, 65>>
      [] s = "foo" -> <<102, 111, 111>>
      [] s = "bar" -> <<98, 97, 114>>
      [] s = "baz" -> <<98, 97, 122>>
      [] s = "qux" -> <<113, 117, 120>>
      [] s = "number" -> <<110, 117, 109, 98, 101, 114>>
      [] s = "string" -> <<115, 116, 114, 105, 110, 103>>
      [] s = "boolean" -> <<98, 111, 111, 108, 101, 97, 110>>
      [] s = "null" -> <<110, 117, 108, 108>>
      [] s = "array" -> <<97, 114, 114, 97, 121>>
      [] s = "object" -> <<111, 98, 106, 101, 99, 116>>
      [] s = "function" -> <<102, 117, 110, 99, 116, 105, 111, 110>>
      [] s = "gggggggggggggggg" -> [i \in 1 .. 16 |-> 103]
      [] s = "hhhhhhhhhhhhhhhh" -> [i \in 1 .. 16 |-> 104]
      [] s = "__defineGetter__" ->
           <<95, 95, 100, 101, 102, 105, 110, 101, 71, 101, 116, 116, 101, 114, 95, 95>>
      [] s = "db" -> <<100, 98>>
      [] s = "db.json" -> <<100, 98, 46, 106, 115, 111, 110>>
      [] s = ".json" -> <<46, 106, 115, 111, 110>>
      [] s = "constructor" -> <<99, 111, 110, 115, 116, 114, 117, 99, 116, 111, 114>>

RECURSIVE SeqLess(_, _)
SeqLess(a, b) ==
    IF b = <<>> THEN FALSE
    ELSE IF a = <<>> THEN TRUE
    ELSE IF Head(a) # Head(b) THEN Head(a) < Head(b)
    ELSE SeqLess(Tail(a), Tail(b))

\* a < b on strings
StrLess(a, b) == SeqLess(CharCodes(a), CharCodes(b))

SeqIncludes(a, b) ==
    \E i \in 0 .. (Len(a) - Len(b)) : \A j \in 1 .. Len(b) : a[i + j] = b[j]

\* a.includes(b)
StrIncludes(a, b) == SeqIncludes(CharCodes(a), CharCodes(b))

\* The case fold of the "i" flag on the letters A..Z
FoldCase(cs) == [i \in 1 .. Len(cs) |-> IF cs[i] >= 65 /\ cs[i] <= 90 THEN cs[i] + 32 ELSE cs[i]]

\* new RegExp(pattern, "i").test(s) for a pattern of literal characters
RegExpTest(pattern, s) == SeqIncludes(FoldCase(CharCodes(s)), FoldCase(CharCodes(pattern)))

\* The property name of array index n
IndexName(n) ==
    CASE n = 0 -> "0" [] n = 1 -> "1" [] n = 2 -> "2" [] n = 3 -> "3" [] n = 4 -> "4"

\* The one-character string of a code unit
CodeChar(c) ==
    CASE c = 49 -> "1" [] c = 50 -> "2" [] c = 51 -> "3"
      [] c = 65 -> "A" [] c = 66 -> "B"
      [] c = 97 -> "a" [] c = 98 -> "b" [] c = 99 -> "c" [] c = 101 -> "e"
      [] c = 102 -> "f" [] c = 103 -> "g" [] c = 105 -> "i" [] c = 106 -> "j"
      [] c = 108 -> "l" [] c = 109 -> "m" [] c = 110 -> "n" [] c = 111 -> "o"
      [] c = 113 -> "q" [] c = 114 -> "r" [] c = 115 -> "s" [] c = 116 -> "t"
      [] c = 117 -> "u" [] c = 120 -> "x" [] c = 121 -> "y" [] c = 122 -> "z"

\* Object.entries(x) of an object literal, of an array (its elements under
\* their indices), of a string (its characters under their indices) and of
\* a number or a boolean (none)
ObjectEntries(x) ==
    IF x.t = "array" THEN [i \in 1 .. Len(x.a) |-> <<IndexName(i - 1), x.a[i]>>]
    ELSE IF x.t = "string"
    THEN LET cs == CharCodes(x.s) IN [i \in 1 .. Len(cs) |-> <<IndexName(i - 1), Str(CodeChar(cs[i]))>>]
    ELSE x.e

----------------------------------------------------------------------------
(* Query validation.  The outcome is Bool(TRUE), Bool(FALSE) or a throw.   *)

validateOperator(opKey, opVal) ==
    CASE opKey = "$exists" ->
           opVal = Bool(TRUE) \/ opVal = Bool(FALSE) \/ opVal = Num(1) \/ opVal = Num(0)
      [] opKey \in {"$lt", "$lte", "$gt", "$gte"} ->
           TypeOf(opVal) = "number" \/ TypeOf(opVal) = "string"
      [] opKey \in {"$in", "$nin"} -> IsArray(opVal)
      [] opKey \in {"$includes", "$eq", "$ne"} -> TRUE
      [] opKey = "$like" -> TypeOf(opVal) = "string"
      [] opKey = "$type" -> TypeOf(opVal) = "string"
      [] OTHER -> FALSE

RECURSIVE everyOperator(_, _)
everyOperator(es, i) ==
    IF i > Len(es) THEN TRUE
    ELSE IF ~validateOperator(es[i][1], es[i][2]) THEN FALSE
    ELSE everyOperator(es, i + 1)

RECURSIVE validateQuery(_)
RECURSIVE validateKeys(_, _)
RECURSIVE everyQuery(_, _)

validateQuery(query) ==
    IF TypeOf(query) # "object" \/ IsArray(query) \/ query = Null THEN Bool(FALSE)
    ELSE validateKeys(query.e, 1)

validateKeys(es, i) ==
    IF i > Len(es) THEN Bool(TRUE)
    ELSE LET qName == es[i][1]
             qVal  == es[i][2]
             r == CASE qName \in {"$and", "$or"} ->
                         IF ~IsArray(qVal) THEN Bool(FALSE) ELSE everyQuery(qVal.a, 1)
                    [] qName = "$not" -> validateQuery(qVal)
                    [] qName = "$where" -> Bool(TypeOf(qVal) = "function")
                    [] OTHER ->
                         IF TypeOf(qVal) # "object" THEN Bool(TRUE)
                         ELSE IF qVal = Null THEN Throw("TypeError")
                         ELSE Bool(everyOperator(ObjectEntries(qVal), 1))
         IN  IF r = Bool(TRUE) THEN validateKeys(es, i + 1) ELSE r

everyQuery(qs, i) ==
    IF i > Len(qs) THEN Bool(TRUE)
    ELSE LET r == validateQuery(qs[i])
         IN  IF r = Bool(TRUE) THEN everyQuery(qs, i + 1) ELSE r

----------------------------------------------------------------------------
(* Query evaluation *)

\* array.includes(x): SameValueZero, which is === on the value model
ArrayIncludes(arr, x) == \E i \in 1 .. Len(arr) : StrictEquals(arr[i], x)

SameKind(docVal, opVal) ==
    \/ TypeOf(docVal) = "string" /\ TypeOf(opVal) = "string"
    \/ TypeOf(docVal) = "number" /\ TypeOf(opVal) = "number"

\* docVal < opVal for two numbers or two strings
Less(a, b) == IF a.t = "number" THEN a.n < b.n ELSE StrLess(a.s, b.s)

evalOperator(docVal, opKey, opVal) ==
    CASE opKey = "$exists" ->
           IF Truthy(opVal) THEN docVal # Undefined ELSE docVal = Undefined
      [] opKey = "$lt"  -> SameKind(docVal, opVal) /\ Less(docVal, opVal)
      [] opKey = "$lte" -> SameKind(docVal, opVal) /\ ~Less(opVal, docVal)
      [] opKey = "$gt"  -> SameKind(docVal, opVal) /\ Less(opVal, docVal)
      [] opKey = "$gte" -> SameKind(docVal, opVal) /\ ~Less(docVal, opVal)
      [] opKey = "$in"  -> ArrayIncludes(opVal.a, docVal)
      [] opKey = "$includes" ->
           IF TypeOf(docVal) = "string"
           THEN TypeOf(opVal) = "string" /\ StrIncludes(docVal.s, opVal.s)
           ELSE IF IsArray(docVal) THEN ArrayIncludes(docVal.a, opVal)
           ELSE FALSE
      [] opKey = "$nin" -> ~ArrayIncludes(opVal.a, docVal)
      [] opKey = "$eq"  -> StrictEquals(docVal, opVal)
      [] opKey = "$ne"  -> ~StrictEquals(docVal, opVal)
      [] opKey = "$like" ->
           TypeOf(opVal) = "string" /\ TypeOf(docVal) = "string" /\ RegExpTest(opVal.s, docVal.s)
      [] opKey = "$type" ->
           IF opVal = Str("array") THEN IsArray(docVal)
           ELSE IF opVal = Str("null") THEN docVal = Null
           ELSE Str(TypeOf(docVal)) = opVal
      [] OTHER -> FALSE

RECURSIVE evalOperatorFrom(_, _, _)
evalOperatorFrom(docVal, es, i) ==
    IF i > Len(es) THEN TRUE
    ELSE IF ~evalOperator(docVal, es[i][1], es[i][2]) THEN FALSE
    ELSE evalOperatorFrom(docVal, es, i + 1)

evalOperatorSet(docVal, opSet) == evalOperatorFrom(docVal, ObjectEntries(opSet), 1)

\* The caller's $where predicates: qVal(doc)
ApplyWhere(fn, doc) ==
    CASE fn.s = "isAny"    -> TRUE
      [] fn.s = "isNone"   -> FALSE
      [] fn.s = "valIsOne" -> GetProp(doc.m, "val") = Num(1)

RECURSIVE evalQuery(_, _)
RECURSIVE evalKey(_, _, _)

\* The test of one key of a query
evalKey(doc, qName, qVal) ==
    CASE qName = "$and" -> \A j \in 1 .. Len(qVal.a) : evalQuery(doc, qVal.a[j])
      [] qName = "$or"  -> \E j \in 1 .. Len(qVal.a) : evalQuery(doc, qVal.a[j])
      [] qName = "$not" -> ~evalQuery(doc, qVal)
      [] qName = "$where" -> ApplyWhere(qVal, doc)
      [] OTHER ->
           IF TypeOf(qVal) = "object" THEN evalOperatorSet(GetProp(doc.m, qName), qVal)
           ELSE StrictEquals(GetProp(doc.m, qName), qVal)

\* An evalQuery that tests the first key only: the fault C15 excludes
evalFirstKey(doc, query) ==
    Len(query.e) = 0 \/ evalKey(doc, query.e[1][1], query.e[1][2])

evalQuery(doc, query) == \A i \in 1 .. Len(query.e) : evalKey(doc, query.e[i][1], query.e[i][2])

RECURSIVE whereCalled(_, _)
RECURSIVE whereCalledKey(_, _, _)

\* Whether evaluating one key of a query calls a $where predicate on doc: a
\* subquery is evaluated only when the loop over $and / $or reaches it
whereCalledKey(doc, qName, qVal) ==
    CASE qName = "$and" ->
           \E j \in 1 .. Len(qVal.a) :
               /\ \A h \in 1 .. (j - 1) : evalQuery(doc, qVal.a[h])
               /\ whereCalled(doc, qVal.a[j])
      [] qName = "$or" ->
           \E j \in 1 .. Len(qVal.a) :
               /\ \A h \in 1 .. (j - 1) : ~evalQuery(doc, qVal.a[h])
               /\ whereCalled(doc, qVal.a[j])
      [] qName = "$not" -> whereCalled(doc, qVal)
      [] qName = "$where" -> TRUE
      [] OTHER -> FALSE

\* Whether evalQuery(doc, query) hands doc itself to a $where predicate: the
\* keys are tested in order and the first failing key ends the evaluation
whereCalled(doc, query) ==
    \E i \in 1 .. Len(query.e) :
        /\ \A h \in 1 .. (i - 1) : evalKey(doc, query.e[h][1], query.e[h][2])
        /\ whereCalledKey(doc, query.e[i][1], query.e[i][2])

----------------------------------------------------------------------------
(* Matching a query against the store *)

\* Object.keys(x) of an object literal
EntryKeys(x) == [i \in 1 .. Len(x.e) |-> x.e[i][1]]

\* x[key] (x.key, x?.key) of an object literal, undefined or null under ?.
EntryGet(x, key) ==
    IF x.t # "entries" THEN Undefined
    ELSE IF \E i \in 1 .. Len(x.e) : x.e[i][1] = key
    THEN x.e[CHOOSE i \in 1 .. Len(x.e) : x.e[i][1] = key][2]
    ELSE IF key = "constructor" THEN Fn("Object")
    ELSE IF key \in ObjectPrototypeKeys THEN Fn(key)
    ELSE Undefined

\* The ids the scan of dbQuery keeps
MatchingKeys(db, query) ==
    SelectSeq(ObjectKeys(db), LAMBDA id : evalQuery(db.docs[id], query))

\* The direct lookup of dbQuery for a query {_id: <string>}
dbQueryById(db, id) == IF Truthy(DbGet(db, id)) THEN <<id>> ELSE <<>>

\* Whether validateQuery, and with it dbQuery and dbQueryOne, throws
QueryThrows(query) == IsThrow(validateQuery(query))

\* dbQuery when validateQuery returns: the matched ids
dbQuery(db, query) ==
    IF validateQuery(query) # Bool(TRUE) THEN <<>>
    ELSE IF Len(query.e) = 0 THEN ObjectKeys(db)
    ELSE IF Len(query.e) = 1 /\ TypeOf(EntryGet(query, "_id")) = "string"
    THEN dbQueryById(db, EntryGet(query, "_id").s)
    ELSE MatchingKeys(db, query)

\* The direct lookup of dbQueryOne for a query {_id: <string>}
dbQueryOneById(db, id) == IF Truthy(DbGet(db, id)) THEN id ELSE ""

\* The id at which the scan of dbQueryOne returns
FirstMatch(db, query) ==
    LET ids == MatchingKeys(db, query) IN IF ids = <<>> THEN "" ELSE ids[1]

\* dbQueryOne when validateQuery returns: the first matched id, or ""
dbQueryOne(db, query) ==
    IF validateQuery(query) # Bool(TRUE) THEN ""
    ELSE IF Len(query.e) = 1 /\ TypeOf(EntryGet(query, "_id")) = "string"
    THEN dbQueryOneById(db, EntryGet(query, "_id").s)
    ELSE FirstMatch(db, query)

\* Whether dbQuery / dbQueryOne run the scan that calls evalQuery
Scans(query, one) ==
    /\ validateQuery(query) = Bool(TRUE)
    /\ one \/ Len(query.e) # 0
    /\ ~(Len(query.e) = 1 /\ TypeOf(EntryGet(query, "_id")) = "string")

\* The stored documents that the scan of dbQuery gives to a $where predicate:
\* evalQuery receives db[id] itself
dbQueryHands(db, query) ==
    IF ~Scans(query, FALSE) THEN {}
    ELSE {id \in DOMAIN db.docs : whereCalled(db.docs[id], query)}

\* The same for dbQueryOne, whose scan ends at the first match
dbQueryOneHands(db, query) ==
    IF ~Scans(query, TRUE) THEN {}
    ELSE LET keys == ObjectKeys(db) IN
         {keys[i] : i \in {j \in 1 .. Len(keys) :
                             /\ whereCalled(db.docs[keys[j]], query)
                             /\ \A h \in 1 .. (j - 1) : ~evalQuery(db.docs[keys[h]], query)}}

----------------------------------------------------------------------------
(* Projection *)

\* The own enumerable properties of a document, or of the Object constructor
\* when the direct lookup returned it
OwnProps(doc) == IF doc.t = "function" THEN ctorProps ELSE doc.m

\* A count that takes every value for truthy: the fault C16 excludes
allKeysCount(projection) == Len(projection.e)

\* Object.values(projection).reduce(...): the number of truthy values
inclusiveKeysCount(projection) ==
    Cardinality({i \in 1 .. Len(projection.e) : Truthy(projection.e[i][2])})

\* dbProjection: the projected copy, Undefined for a rejected projection, or
\* the throw of structuredClone
dbProjection(doc, projection) ==
    IF TypeOf(projection) # "object" \/ IsArray(projection) \/ projection = Null THEN Undefined
    ELSE IF Len(projection.e) = 0
    THEN structuredClone(doc)
    ELSE IF inclusiveKeysCount(projection) > 0 /\ inclusiveKeysCount(projection) # Len(projection.e)
    THEN Undefined
    ELSE IF inclusiveKeysCount(projection) > 0
    THEN LET keys == {projection.e[i][1] : i \in 1 .. Len(projection.e)} IN
         IF \E k \in keys : IsThrow(structuredClone(GetProp(OwnProps(doc), k)))
         THEN Throw("DataCloneError")
         ELSE Obj([k \in keys |-> structuredClone(GetProp(OwnProps(doc), k))])
    ELSE LET keys == {k \in DOMAIN OwnProps(doc) : EntryGet(projection, k) = Undefined} IN
         IF \E k \in keys : IsThrow(structuredClone(OwnProps(doc)[k]))
         THEN Throw("DataCloneError")
         ELSE Obj([k \in keys |-> structuredClone(OwnProps(doc)[k])])

----------------------------------------------------------------------------
(* Insertion *)

\* const alphabet: the code units of a-z, A-Z, 0-9 and _
alphabet ==
    [i \in 1 .. 26 |-> 96 + i] \o [i \in 1 .. 26 |-> 64 + i] \o [i \in 1 .. 10 |-> 47 + i]
    \o <<95>>

\* The strings uid can return in the model
UidStrings == {"gggggggggggggggg", "hhhhhhhhhhhhhhhh", "__defineGetter__"}

\* uid(len), given the values of Math.floor(Math.random() * alphabet.length)
\* of the len draws: chars.join("")
uid(len, draws) ==
    LET chars == [i \in 1 .. len |-> alphabet[draws[i] + 1]] IN
    CHOOSE str \in UidStrings : CharCodes(str) = chars

\* uid(16): the strings of 16 alphabet characters the model draws
UidDraws == {"gggggggggggggggg", "hhhhhhhhhhhhhhhh"}

\* makeId: the ids it can return, a draw is repeated while db[id] !== undefined
makeId(db) == {id \in UidDraws : DbGet(db, id) = Undefined}

\* insertDocWithId without the test of db[id]: the fault C3 excludes
insertDocOverwriting(db, doc) ==
    [db |-> DbSet(db, doc.m["_id"].s, structuredClone(doc)), id |-> doc.m["_id"].s]

\* insertDocWithId: [db, id]
insertDocWithId(db, doc) ==
    LET id == doc.m["_id"].s IN
    IF Truthy(DbGet(db, id)) THEN [db |-> db, id |-> ""]
    ELSE [db |-> DbSet(db, id, structuredClone(doc)), id |-> id]

\* insertDoc with the id that makeId returned: [db, id]
insertDoc(db, doc, id) ==
    [db |-> DbSet(db, id, Obj(SetProp(structuredClone(doc).m, "_id", Str(id)))), id |-> id]

\* Whether dbInsert takes the insertDocWithId branch
HasUsableId(doc) ==
    /\ TypeOf(GetProp(doc.m, "_id")) = "string"
    /\ GetProp(doc.m, "_id").s # ""

IsPlainObject(doc) == ~(TypeOf(doc) # "object" \/ IsArray(doc) \/ doc = Null)

\* dbInsert, given the id makeId returns when it is called: [db, id]
dbInsert(db, doc, genId) ==
    IF ~IsPlainObject(doc) THEN [db |-> db, id |-> ""]
    ELSE IF HasUsableId(doc) THEN insertDocWithId(db, doc)
    ELSE insertDoc(db, doc, genId)

----------------------------------------------------------------------------
(* The update engine.  dbUpdate mutates the document in place, so what it  *)
(* did before a throw stays done: the outcome is the document's own        *)
(* properties, the flag and whether the call threw.                        *)

UpdateOperators == {"$inc", "$push", "$rename", "$set", "$unset"}

\* The sub-operations of one operator, in the order of Object.entries(operand)
OperandSteps(operator, operand) ==
    IF operator \notin UpdateOperators THEN <<>>
    ELSE IF operand \in {Null, Undefined} THEN << <<"throw", "", Undefined>> >>
    ELSE LET es == ObjectEntries(operand) IN
         [i \in 1 .. Len(es) |-> <<operator, es[i][1], es[i][2]>>]

RECURSIVE UpdateSteps(_, _)
UpdateSteps(es, i) ==
    IF i > Len(es) THEN <<>>
    ELSE OperandSteps(es[i][1], es[i][2]) \o UpdateSteps(es, i + 1)

\* A $set without the guard on _id: the fault C1 excludes
ApplyStepUnguarded(m, operator, field, value) ==
    IF operator = "$set"
    THEN [doc |-> SetProp(m, field, structuredClone(value)), n |-> 1, thrown |-> ""]
    ELSE [doc |-> m, n |-> 0, thrown |-> ""]

\* One sub-operation on the own properties m: [doc, n, thrown], thrown the
\* name of the error raised or ""
ApplyStep(m, operator, field, value) ==
    LET cur  == GetProp(m, field)
        skip == [doc |-> m, n |-> 0, thrown |-> ""]
        done(m2) == [doc |-> m2, n |-> 1, thrown |-> ""]
    IN
    CASE operator = "throw" -> [doc |-> m, n |-> 0, thrown |-> "TypeError"]
      [] operator = "$inc" ->
           IF TypeOf(value) # "number" THEN skip
           ELSE IF TypeOf(cur) = "number" THEN done(SetProp(m, field, Num(cur.n + value.n)))
           ELSE IF TypeOf(cur) = "undefined" THEN done(SetProp(m, field, value))
           ELSE skip
      [] operator = "$push" ->
           IF cur = Undefined THEN done(SetProp(m, field, Arr(<<structuredClone(value)>>)))
           ELSE IF ~IsArray(cur) THEN skip
           ELSE done(SetProp(m, field, Arr(Append(cur.a, structuredClone(value)))))
      [] operator = "$rename" ->
           IF field = "_id" THEN skip
           ELSE IF TypeOf(value) # "string" THEN skip
           ELSE IF GetProp(m, value.s) # Undefined THEN skip
           ELSE IF cur # Undefined
           THEN IF IsThrow(structuredClone(cur)) THEN [doc |-> m, n |-> 0, thrown |-> "DataCloneError"]
                ELSE done(DeleteProp(SetProp(m, value.s, structuredClone(cur)), field))
           ELSE skip
      [] operator = "$set" ->
           IF field = "_id" THEN skip
           ELSE done(SetProp(m, field, structuredClone(value)))
      [] operator = "$unset" ->
           IF field = "_id" THEN skip
           ELSE IF cur # Undefined /\ Truthy(value) THEN done(DeleteProp(m, field))
           ELSE skip

\* An update that keeps the last sub-operation only: the fault C22 excludes
ApplyLastStep(st, steps, i) ==
    IF Len(steps) = 0 THEN st
    ELSE ApplyStep(st.doc, steps[Len(steps)][1], steps[Len(steps)][2], steps[Len(steps)][3])

RECURSIVE ApplySteps(_, _, _)
ApplySteps(st, steps, i) ==
    IF i > Len(steps) \/ st.thrown # "" THEN st
    ELSE LET r == ApplyStep(st.doc, steps[i][1], steps[i][2], steps[i][3]) IN
         ApplySteps([doc |-> r.doc,
                     n |-> IF r.n = 1 THEN 1 ELSE st.n,
                     thrown |-> r.thrown], steps, i + 1)

\* dbUpdate on the own properties m of the document: [doc, n, thrown]
dbUpdate(m, update) ==
    IF TypeOf(update) # "object" \/ IsArray(update) \/ update = Null
    THEN [doc |-> m, n |-> 0, thrown |-> ""]
    ELSE IF Len(update.e) = 0 THEN [doc |-> m, n |-> 0, thrown |-> ""]
    ELSE ApplySteps([doc |-> m, n |-> 0, thrown |-> ""], UpdateSteps(update.e, 1), 1)

----------------------------------------------------------------------------
(* The collection API: class JsonDB.  Each method is an operator from the  *)
(* store (and, for update, the properties of the Object constructor) to    *)
(* the outcome of the call.                                                *)

\* options?.skipSave, options?.multi
Option(options, key) == EntryGet(options, key)

\* count(query)
count(db, query) ==
    IF QueryThrows(query) THEN Throw("TypeError") ELSE Num(Len(dbQuery(db, query)))

\* find(query, projection)
find(db, query, projection) ==
    IF QueryThrows(query) THEN Throw("TypeError")
    ELSE LET ids  == dbQuery(db, query)
             docs == [i \in 1 .. Len(ids) |-> dbProjection(DbGet(db, ids[i]), projection)] IN
         IF \E i \in 1 .. Len(docs) : IsThrow(docs[i])
         THEN docs[CHOOSE i \in 1 .. Len(docs) :
                       IsThrow(docs[i]) /\ \A h \in 1 .. (i - 1) : ~IsThrow(docs[h])]
         ELSE Arr(docs)

\* findOne(query, projection)
findOne(db, query, projection) ==
    LET id == dbQueryOne(db, query) IN
    IF QueryThrows(query) THEN Throw("TypeError")
    ELSE IF id = "" THEN Undefined
    ELSE dbProjection(DbGet(db, id), projection)

\* insert(doc, options), given the id makeId returns when it is called
insert(db, doc, options, genId) ==
    LET r == dbInsert(db, doc, genId) IN
    [db   |-> r.db,
     ret  |-> Str(r.id),
     save |-> r.id # "" /\ ~Truthy(Option(options, "skipSave"))]

RECURSIVE DeleteAll(_, _, _)
DeleteAll(db, ids, i) ==
    IF i > Len(ids) THEN db ELSE DeleteAll(DbDelete(db, ids[i]), ids, i + 1)

\* A guard that refuses nothing: the fault C2 excludes
RefusesNone(ids, options) == FALSE

\* Whether remove and update refuse the ids that the query matched
RefusesMulti(ids, options) == Len(ids) > 1 /\ ~Truthy(Option(options, "multi"))

\* remove(query, options)
remove(db, query, options) ==
    LET ids == dbQuery(db, query) IN
    IF QueryThrows(query) THEN [db |-> db, ret |-> Throw("TypeError"), save |-> FALSE]
    ELSE IF Len(ids) = 0 THEN [db |-> db, ret |-> Num(0), save |-> FALSE]
    ELSE IF RefusesMulti(ids, options) THEN [db |-> db, ret |-> Num(0), save |-> FALSE]
    ELSE [db   |-> DeleteAll(db, ids, 1),
          ret  |-> Num(Len(ids)),
          save |-> ~Truthy(Option(options, "skipSave"))]

\* The loop of update over the matched ids: dbUpdate(this.docMap[id], update)
\* works on the object the lookup returns, a stored document or, for an id
\* that the direct lookup took from the prototype chain, the Object constructor
RECURSIVE UpdateAll(_, _, _, _)
UpdateAll(st, ids, update, i) ==
    IF i > Len(ids) \/ st.thrown # "" THEN st
    ELSE LET target == DbGet(st.db, ids[i])
             r == dbUpdate(IF target.t = "function" THEN st.ctor ELSE target.m, update)
         IN  UpdateAll([db     |-> IF target.t = "function" THEN st.db
                                   ELSE DbSet(st.db, ids[i], Obj(r.doc)),
                        ctor   |-> IF target.t = "function" THEN r.doc ELSE st.ctor,
                        n      |-> st.n + r.n,
                        thrown |-> r.thrown], ids, update, i + 1)

\* update(query, update, options)
update(db, ctor, query, upd, options) ==
    LET ids  == dbQuery(db, query)
        same == [db |-> db, ctor |-> ctor, ret |-> Num(0), save |-> FALSE]
    IN
    IF QueryThrows(query) THEN [same EXCEPT !.ret = Throw("TypeError")]
    ELSE IF Len(ids) = 0 THEN same
    ELSE IF RefusesMulti(ids, options) THEN same
    ELSE LET r == UpdateAll([db |-> db, ctor |-> ctor, n |-> 0, thrown |-> ""], ids, upd, 1) IN
         [db   |-> r.db,
          ctor |-> r.ctor,
          ret  |-> IF r.thrown # "" THEN Throw(r.thrown) ELSE Num(r.n),
          save |-> r.thrown = "" /\ r.n > 0 /\ ~Truthy(Option(options, "skipSave"))]

\* JSON.stringify of a value, as the value JSON.parse reads back: a field
\* that holds undefined or a function is left out, such an element of an
\* array is written as null
RECURSIVE JSONStringify(_)
JSONStringify(x) ==
    IF x.t = "object"
    THEN Obj([k \in {f \in DOMAIN x.m : x.m[f].t \notin {"undefined", "function"}} |->
                 JSONStringify(x.m[k])])
    ELSE IF x.t = "array"
    THEN Arr([i \in 1 .. Len(x.a) |->
                 IF x.a[i].t \in {"undefined", "function"} THEN Null ELSE JSONStringify(x.a[i])])
    ELSE x

\* save(): the content handed to writeAndForget, JSON.stringify(this.docMap):
\* the keys of the store in the order of Object.keys, each with its document
save(db) ==
    LET keys == ObjectKeys(db) IN
    Entries([i \in 1 .. Len(keys) |-> <<keys[i], JSONStringify(db.docs[keys[i]])>>])

----------------------------------------------------------------------------
(* The calls the model draws *)

\* Caller-supplied ids: an array index, an id that an earlier insert may have
\* generated, and a name that every object inherits
CallerIds == {"1", "gggggggggggggggg", "constructor"}

Vals == {Num(n) : n \in 1 .. MaxVal}

\* The arguments of insert: plain objects with or without a usable _id, and
\* values that are no plain object
InsertDocs ==
    {Obj(SetProp([val |-> v], "_id", Str(i))) : v \in Vals, i \in CallerIds \cup {""}}
    \cup {Obj([val |-> v]) : v \in Vals}
    \cup {Str("a"), Arr(<<Str("a")>>), Null}

QueryIds == CallerIds

\* The query {}
EmptyQuery == Entries(<<>>)

\* The query {_id: i}
IdQuery(i) == Entries(<< <<"_id", Str(i)>> >>)

Queries ==
    {EmptyQuery}
    \cup {IdQuery(i) : i \in QueryIds}
    \cup {Entries(<< <<"val", Num(1)>> >>),
          Entries(<< <<"val", Entries(<< <<"$gte", Num(2)>> >>)>> >>),
          Entries(<< <<"$or", Arr(<< Entries(<< <<"_id", Str("gggggggggggggggg")>> >>),
                                     Entries(<< <<"val", Num(1)>> >>) >>)>> >>),
          Entries(<< <<"$where", Fn("valIsOne")>> >>),
          Str("a")}

\* The projection {}
EmptyProjection == Entries(<<>>)

Projections == {EmptyProjection, Entries(<< <<"val", Num(1)>> >>)}

\* $inc, $push, $rename, $set and $unset, each aimed at _id
IdUpdate ==
    Entries(<< <<"$inc",    Entries(<< <<"_id", Num(1)>> >>)>>,
               <<"$push",   Entries(<< <<"_id", Num(1)>> >>)>>,
               <<"$rename", Entries(<< <<"_id", Str("val")>>, <<"val", Str("_id")>> >>)>>,
               <<"$set",    Entries(<< <<"_id", Str("a")>> >>)>>,
               <<"$unset",  Entries(<< <<"_id", Num(1)>> >>)>> >>)

SetUpdate == Entries(<< <<"$set", Entries(<< <<"val", Num(MaxVal)>> >>)>> >>)

Updates ==
    {SetUpdate,
     Entries(<< <<"$inc",   Entries(<< <<"val", Num(1)>> >>)>> >>),
     Entries(<< <<"$unset", Entries(<< <<"val", Num(1)>> >>)>> >>),
     IdUpdate}

OptionSets ==
    {Undefined,
     Entries(<< <<"multi", Bool(TRUE)>> >>),
     Entries(<< <<"skipSave", Bool(TRUE)>> >>)}

\* No number above MaxVal: the cap on what $inc may build
Capped(m) == \A k \in DOMAIN m : m[k].t = "number" => m[k].n <= MaxVal

----------------------------------------------------------------------------
(* The state machine: one action per method of JsonDB *)

\* The record of a call: the arguments a method does not take are Undefined
Call(op, query, projection, doc, upd, options, ret) ==
    [op |-> op, query |-> query, projection |-> projection, doc |-> doc,
     update |-> upd, options |-> options, ret |-> ret]

NoCall == Call("none", Undefined, Undefined, Undefined, Undefined, Undefined, Undefined)

\* The database names that the directory may hold a snapshot file of
FileNames == {"db"}

\* The module as loaded: dbDir = "", dbHolder = {}, no handle given out, and
\* no snapshot file in the directory
NoRegistry ==
    /\ dbDir = ""
    /\ files = [name \in FileNames |-> Undefined]
    /\ dbHolder = EmptyMap
    /\ stores = <<>>
    /\ handles = {}

Init ==
    /\ docMap = EmptyDb
    /\ ctorProps = EmptyMap
    /\ call = NoCall
    /\ handed = {}
    /\ written = Undefined
    /\ NoRegistry

Count ==
    \E query \in Queries :
        /\ call = NoCall
        /\ call' = Call("count", query, Undefined, Undefined, Undefined, Undefined,
                         count(docMap, query))
        /\ handed' = dbQueryHands(docMap, query)
        /\ written' = Undefined
        /\ UNCHANGED <<docMap, ctorProps>>
    /\ UNCHANGED registry

Find ==
    \E query \in Queries, projection \in Projections :
        /\ call = NoCall
        /\ call' = Call("find", query, projection, Undefined, Undefined, Undefined,
                         find(docMap, query, projection))
        /\ handed' = dbQueryHands(docMap, query)
        /\ written' = Undefined
        /\ UNCHANGED <<docMap, ctorProps>>
    /\ UNCHANGED registry

FindOne ==
    \E query \in Queries, projection \in Projections :
        /\ call = NoCall
        /\ call' = Call("findOne", query, projection, Undefined, Undefined, Undefined,
                         findOne(docMap, query, projection))
        /\ handed' = dbQueryOneHands(docMap, query)
        /\ written' = Undefined
        /\ UNCHANGED <<docMap, ctorProps>>
    /\ UNCHANGED registry

Insert ==
    /\ call = NoCall
    /\ \E doc \in InsertDocs, options \in OptionSets :
       \E genId \in IF IsPlainObject(doc) /\ ~HasUsableId(doc) THEN makeId(docMap) ELSE {""} :
       \E r \in {insert(docMap, doc, options, genId)} :
        /\ Cardinality(DOMAIN r.db.docs) <= MaxDocs
        /\ docMap' = r.db
        /\ call' = Call("insert", Undefined, Undefined, doc, Undefined, options, r.ret)
        /\ handed' = {}
        /\ written' = IF r.save THEN save(r.db) ELSE Undefined
        /\ UNCHANGED ctorProps
    /\ UNCHANGED registry

Remove ==
    /\ call = NoCall
    /\ \E query \in Queries, options \in OptionSets :
       \E r \in {remove(docMap, query, options)} :
        /\ docMap' = r.db
        /\ call' = Call("remove", query, Undefined, Undefined, Undefined, options, r.ret)
        /\ handed' = dbQueryHands(docMap, query) \cap DOMAIN r.db.docs
        /\ written' = IF r.save THEN save(r.db) ELSE Undefined
        /\ UNCHANGED ctorProps
    /\ UNCHANGED registry

Update ==
    /\ call = NoCall
    /\ \E query \in Queries, upd \in Updates, options \in OptionSets :
          /\ EntryGet(query, "_id") = Str("constructor") => upd = SetUpdate
          /\ \E r \in {update(docMap, ctorProps, query, upd, options)} :
                /\ Capped(r.ctor)
                /\ \A id \in DOMAIN r.db.docs : Capped(r.db.docs[id].m)
                /\ docMap' = r.db
                /\ ctorProps' = r.ctor
                /\ call' = Call("update", query, Undefined, Undefined, upd, options, r.ret)
                /\ handed' = dbQueryHands(docMap, query)
                /\ written' = IF r.save THEN save(r.db) ELSE Undefined
    /\ UNCHANGED registry

\* The call has returned and the caller has let go of what it was given
Return ==
    /\ call # NoCall
    /\ call' = NoCall
    /\ handed' = {}
    /\ written' = Undefined
    /\ UNCHANGED <<docMap, ctorProps>>
    /\ UNCHANGED registry

Next == Count \/ Find \/ FindOne \/ Insert \/ Remove \/ Update \/ Return

Spec == Init /\ [][Next]_vars

----------------------------------------------------------------------------
(* The caller's side of a reference.  evalQuery receives db[id] and passes *)
(* it to the $where predicate, so the predicate's code holds the stored    *)
(* document itself and may write to it.                                    *)

\* Caller code assigns doc.val = v on a document that a $where predicate of
\* the running call was given
CallerMutate ==
    \E id \in handed, v \in Vals :
        /\ call # NoCall
        /\ GetProp(docMap.docs[id].m, "val") # v
        /\ docMap' = DbSet(docMap, id, Obj(SetProp(docMap.docs[id].m, "val", v)))
        /\ UNCHANGED <<ctorProps, call, handed, written>>
    /\ UNCHANGED registry

NextAliasing == Next \/ CallerMutate

SpecAliasing == Init /\ [][NextAliasing]_vars

----------------------------------------------------------------------------
(* The query engine on its own: validateQuery and evalQuery applied to     *)
(* queries of every shape, and the five querying methods called with       *)
(* them, on stores whose documents hold a field val of every variant.      *)

MaxLen == 2

\* The values of the field val: a number, a string, a boolean, null, an
\* array and a mapping
FieldVals ==
    Vals \cup {Str("a"), Bool(TRUE), Null, Arr(<<Num(1)>>), Obj([g |-> Num(1)])}

\* The documents: one for every value of val, and one without the field
QueryDocs(id) ==
    {Obj([_id |-> Str(id), val |-> v]) : v \in FieldVals} \cup {Obj([_id |-> Str(id)])}

\* The stores: one document under "a", or that document after one under "b"
QueryStores ==
    {DbSet(EmptyDb, "a", d) : d \in QueryDocs("a")}
    \cup {DbSet(DbSet(EmptyDb, "b", Obj([_id |-> Str("b"), val |-> Num(1)])), "a", d) :
              d \in QueryDocs("a")}

\* The query {key: operand}
KeyQuery(key, operand) == Entries(<< <<key, operand>> >>)

\* The query {val: {operator: operand}}
OperatorQuery(operator, operand) == KeyQuery("val", KeyQuery(operator, operand))

\* The twelve operators of validateOperator and one it does not know
OperatorNames ==
    {"$exists", "$eq", "$ne", "$gt", "$gte", "$lt", "$lte", "$in", "$nin",
     "$includes", "$like", "$type", "$size"}

\* Operands of every variant
Operands ==
    {Bool(TRUE), Bool(FALSE), Num(0), Num(1), Num(2), Str("a"), Null,
     Arr(<<>>), Arr(<<Num(1), Str("a")>>), Arr(<<Arr(<<Num(1)>>)>>), Obj([g |-> Num(1)]),
     Str("number"), Str("string"), Str("boolean"), Str("null"), Str("array"),
     Str("object"), Str("function")}

OperatorQueries == {OperatorQuery(op, v) : op \in OperatorNames, v \in Operands}

\* The queries {val: v} of a scalar v
ScalarQueries == {KeyQuery("val", v) : v \in {Num(1), Str("a"), Bool(TRUE), Null}}

\* The queries that test one field
Atoms ==
    {EmptyQuery,
     KeyQuery("val", Num(1)),
     OperatorQuery("$gte", Num(2)),
     KeyQuery("val", Entries(<< <<"$gte", Num(1)>>, <<"$lte", Num(1)>> >>))}

\* The sequences of at most MaxLen elements of S
SeqsUpTo(S) == UNION {[1 .. n -> S] : n \in 0 .. MaxLen}

\* $and, $or and $not over the atoms, alone and beside a field key
Compounds ==
    {KeyQuery(op, Arr(qs)) : op \in {"$and", "$or"}, qs \in SeqsUpTo(Atoms)}
    \cup {KeyQuery("$not", q) : q \in Atoms}
    \cup {Entries(<< <<"val", Num(1)>>, <<op, Arr(<<q>>)>> >>) : op \in {"$and", "$or"}, q \in Atoms}

\* One more level of nesting
Nested ==
    {KeyQuery("$not", q) : q \in Compounds}
    \cup {KeyQuery(op, Arr(<<a, q>>)) : op \in {"$and", "$or"}, a \in Atoms, q \in Compounds}

BooleanQueries == Atoms \cup Compounds \cup Nested

\* The queries validateQuery rejects by their shape
MalformedQueries ==
    {Str("a"), Num(1), Undefined, Null, Arr(<<>>),
     KeyQuery("$and", Num(1)), KeyQuery("$or", EmptyQuery),
     KeyQuery("$and", Arr(<<Num(1)>>)), KeyQuery("$not", Num(1)),
     KeyQuery("$where", Num(1)),
     OperatorQuery("$size", Num(1)), OperatorQuery("$gt", Bool(TRUE)),
     OperatorQuery("$in", Num(1)), OperatorQuery("$exists", Str("a"))}

\* The queries the methods are called with
MethodQueries ==
    MalformedQueries \cup ScalarQueries
    \cup {EmptyQuery, OperatorQuery("$gte", Num(1)), KeyQuery("$where", Fn("isAny"))}

InitQuery ==
    /\ docMap \in QueryStores
    /\ ctorProps = EmptyMap
    /\ call = NoCall
    /\ handed = {}
    /\ written = Undefined
    /\ NoRegistry

\* validateQuery(query)
ValidateQuery ==
    /\ call = NoCall
    /\ \E query \in OperatorQueries \cup ScalarQueries \cup BooleanQueries \cup MalformedQueries :
           /\ call' = Call("validateQuery", query, Undefined, Undefined, Undefined, Undefined,
                            validateQuery(query))
           /\ handed' = {}
           /\ UNCHANGED <<docMap, ctorProps, written>>
    /\ UNCHANGED registry

\* evalQuery(db[id], query), which dbQuery and dbQueryOne call after validateQuery
\* has returned true
EvalQuery ==
    /\ call = NoCall
    /\ \E id \in DOMAIN docMap.docs :
       \E query \in OperatorQueries \cup ScalarQueries \cup BooleanQueries :
           /\ validateQuery(query) = Bool(TRUE)
           /\ call' = Call("evalQuery", query, Undefined, docMap.docs[id], Undefined, Undefined,
                            Bool(evalQuery(docMap.docs[id], query)))
           /\ handed' = {}
           /\ UNCHANGED <<docMap, ctorProps, written>>
    /\ UNCHANGED registry

QueryCount ==
    /\ call = NoCall
    /\ \E query \in MethodQueries :
           /\ call' = Call("count", query, Undefined, Undefined, Undefined, Undefined,
                            count(docMap, query))
           /\ handed' = dbQueryHands(docMap, query)
           /\ UNCHANGED <<docMap, ctorProps, written>>
    /\ UNCHANGED registry

QueryFind ==
    /\ call = NoCall
    /\ \E query \in MethodQueries :
           /\ call' = Call("find", query, EmptyProjection, Undefined, Undefined, Undefined,
                            find(docMap, query, EmptyProjection))
           /\ handed' = dbQueryHands(docMap, query)
           /\ UNCHANGED <<docMap, ctorProps, written>>
    /\ UNCHANGED registry

QueryFindOne ==
    /\ call = NoCall
    /\ \E query \in MethodQueries :
           /\ call' = Call("findOne", query, EmptyProjection, Undefined, Undefined, Undefined,
                            findOne(docMap, query, EmptyProjection))
           /\ handed' = dbQueryOneHands(docMap, query)
           /\ UNCHANGED <<docMap, ctorProps, written>>
    /\ UNCHANGED registry

QueryRemove ==
    /\ call = NoCall
    /\ \E query \in MethodQueries, options \in OptionSets :
           \E r \in {remove(docMap, query, options)} :
           /\ docMap' = r.db
           /\ call' = Call("remove", query, Undefined, Undefined, Undefined, options, r.ret)
           /\ handed' = dbQueryHands(docMap, query) \cap DOMAIN r.db.docs
           /\ written' = IF r.save THEN save(r.db) ELSE Undefined
           /\ UNCHANGED ctorProps
    /\ UNCHANGED registry

QueryUpdate ==
    /\ call = NoCall
    /\ \E query \in MethodQueries, options \in OptionSets :
           \E r \in {update(docMap, ctorProps, query, SetUpdate, options)} :
           /\ docMap' = r.db
           /\ ctorProps' = r.ctor
           /\ call' = Call("update", query, Undefined, Undefined, SetUpdate, options, r.ret)
           /\ handed' = dbQueryHands(docMap, query)
           /\ written' = IF r.save THEN save(r.db) ELSE Undefined
    /\ UNCHANGED registry

NextQuery ==
    \/ ValidateQuery \/ EvalQuery
    \/ QueryCount \/ QueryFind \/ QueryFindOne \/ QueryRemove \/ QueryUpdate
    \/ Return

SpecQuery == InitQuery /\ [][NextQuery]_vars

----------------------------------------------------------------------------
(* Properties *)

\* The documents of the store that match the query: the query is valid and
\* evalQuery accepts the document
Matches(db, query) ==
    {id \in DOMAIN db.docs : validateQuery(query) = Bool(TRUE) /\ evalQuery(db.docs[id], query)}

\* A query uses $where, at any depth
RECURSIVE HasWhere(_)
HasWhere(query) ==
    /\ query.t = "entries"
    /\ \E i \in 1 .. Len(query.e) :
           \/ query.e[i][1] = "$where"
           \/ query.e[i][1] \in {"$and", "$or"} /\ \E j \in 1 .. Len(query.e[i][2].a) :
                                                      HasWhere(query.e[i][2].a[j])
           \/ query.e[i][1] = "$not" /\ HasWhere(query.e[i][2])

\* remove and update refuse the call: more than one match and no truthy multi
Refused(db, query, options) ==
    Cardinality(Matches(db, query)) > 1 /\ ~Truthy(Option(options, "multi"))

\* Every key of the store maps to a document whose _id is the key
IdIsKey(db) ==
    \A k \in DOMAIN db.docs :
        /\ k # ""
        /\ db.docs[k].t = "object"
        /\ "_id" \in DOMAIN db.docs[k].m
        /\ db.docs[k].m["_id"] = Str(k)

\* C1: from a store in which every key k maps to a document whose _id is k,
\* every insert, update and remove leads to such a store again, and an update,
\* whatever its operators and their targets, leaves every stored document
\* where it is with the _id it had.
C1_IdIsKeyAndImmutable ==
    [][IdIsKey(docMap) =>
          /\ IdIsKey(docMap')
          /\ (call = NoCall /\ call'.op = "update") =>
                 \A k \in DOMAIN docMap.docs :
                     /\ k \in DOMAIN docMap'.docs
                     /\ docMap'.docs[k].m["_id"] = docMap.docs[k].m["_id"]]_vars

\* An update whose five operators all aim at _id has run on a matched document
C1_Witness ==
    /\ call.op = "update"
    /\ call.update = IdUpdate
    /\ Matches(docMap, call.query) # {}
    /\ ~IsThrow(call.ret)

\* C2: a remove or an update whose query matches more than one document
\* while options.multi is not truthy returns 0 and leaves the store as it was.
C2_MultiRefused ==
    [][(/\ call = NoCall
        /\ call'.op \in {"remove", "update"}
        /\ Refused(docMap, call'.query, call'.options))
       => (call'.ret = Num(0) /\ docMap' = docMap)]_vars

\* A remove was refused for the lack of multi
C2_Witness ==
    /\ call.op = "remove"
    /\ Refused(docMap, call.query, call.options)
    /\ call.ret = Num(0)

\* C3: an insert of a value that is no plain object, or of a document whose
\* non-empty string _id is a key of the store, returns "", leaves the store
\* as it was and saves nothing.
C3_InsertRefused ==
    [][(/\ call = NoCall
        /\ call'.op = "insert"
        /\ \/ ~IsPlainObject(call'.doc)
           \/ /\ HasUsableId(call'.doc)
              /\ call'.doc.m["_id"].s \in DOMAIN docMap.docs)
       => (call'.ret = Str("") /\ docMap' = docMap /\ written' = Undefined)]_vars

\* An insert of a document whose _id is a key of the store has returned ""
C3_Witness ==
    /\ call.op = "insert"
    /\ HasUsableId(call.doc)
    /\ call.doc.m["_id"].s \in DOMAIN docMap.docs
    /\ docMap.docs[call.doc.m["_id"].s] # call.doc
    /\ call.ret = Str("")

\* C4: an insert of a plain object that carries no _id of the store returns
\* a non-empty id, which is doc._id when that is a non-empty string and
\* otherwise an id that was no key of the store; afterwards findOne({_id: id}, {})
\* is the document with _id = id, the store has one more document and the
\* documents it had are unchanged.
C4_InsertSucceeds ==
    [][(/\ call = NoCall
        /\ call'.op = "insert"
        /\ IsPlainObject(call'.doc)
        /\ ~(HasUsableId(call'.doc) /\ call'.doc.m["_id"].s \in DOMAIN docMap.docs))
       => LET doc == call'.doc
              id  == call'.ret.s
          IN  /\ call'.ret.t = "string"
              /\ id # ""
              /\ HasUsableId(doc) => id = doc.m["_id"].s
              /\ id \notin DOMAIN docMap.docs
              /\ findOne(docMap', IdQuery(id), EmptyProjection) = Obj(SetProp(doc.m, "_id", Str(id)))
              /\ Cardinality(DOMAIN docMap'.docs) = Cardinality(DOMAIN docMap.docs) + 1
              /\ \A k \in DOMAIN docMap.docs :
                     k \in DOMAIN docMap'.docs /\ docMap'.docs[k] = docMap.docs[k]]_vars

\* C5: a remove that is not refused deletes exactly the documents that match
\* the query, returns their number and leaves the other documents unchanged;
\* right after it count(query) is 0 when the query has no $where.
C5_RemoveExact ==
    [][(/\ call = NoCall
        /\ call'.op = "remove"
        /\ ~IsThrow(call'.ret)
        /\ ~Refused(docMap, call'.query, call'.options))
       => /\ DOMAIN docMap'.docs = DOMAIN docMap.docs \ Matches(docMap, call'.query)
          /\ call'.ret = Num(Cardinality(Matches(docMap, call'.query)))
          /\ \A k \in DOMAIN docMap'.docs : docMap'.docs[k] = docMap.docs[k]
          /\ ~HasWhere(call'.query) => count(docMap', call'.query) = Num(0)]_vars

\* C6: an update that is not refused applies dbUpdate to every document that
\* matches the query and to no other document, and returns the number of the
\* matched documents whose flag was 1.
C6_UpdateExact ==
    [][(/\ call = NoCall
        /\ call'.op = "update"
        /\ ~IsThrow(call'.ret)
        /\ ~Refused(docMap, call'.query, call'.options))
       => LET matched == Matches(docMap, call'.query) IN
          /\ DOMAIN docMap'.docs = DOMAIN docMap.docs
          /\ \A k \in matched :
                 docMap'.docs[k] = Obj(dbUpdate(docMap.docs[k].m, call'.update).doc)
          /\ \A k \in DOMAIN docMap.docs \ matched : docMap'.docs[k] = docMap.docs[k]
          /\ call'.ret = Num(Cardinality({k \in matched :
                                 dbUpdate(docMap.docs[k].m, call'.update).n = 1}))]_vars

\* C7: the store changes only through insert, update and remove: no step of
\* caller code on a value it passed in or was given changes the store.
C7_NoAliasing ==
    [][docMap' # docMap =>
          (call = NoCall /\ call'.op \in {"insert", "update", "remove"})]_vars

\* C8: the empty query matches every document: count({}) is the number of
\* documents in the store, find({}) returns them all and dbQuery(db, {})
\* returns all the keys of the store.
C8_EmptyQueryMatchesAll ==
    LET n     == Cardinality(DOMAIN docMap.docs)
        ids   == dbQuery(docMap, EmptyQuery)
        found == find(docMap, EmptyQuery, EmptyProjection)
    IN  /\ \A k \in DOMAIN docMap.docs : evalQuery(docMap.docs[k], EmptyQuery)
        /\ count(docMap, EmptyQuery) = Num(n)
        /\ Len(ids) = n
        /\ {ids[i] : i \in 1 .. Len(ids)} = DOMAIN docMap.docs
        /\ found.t = "array"
        /\ Len(found.a) = n
        /\ {found.a[i] : i \in 1 .. Len(found.a)} = {docMap.docs[k] : k \in DOMAIN docMap.docs}

\* count({}) has run on a store of several documents, one under an index key
C8_Witness ==
    /\ call.op = "count"
    /\ call.query = EmptyQuery
    /\ call.ret.n >= 2
    /\ "1" \in DOMAIN docMap.docs

\* C9: for every store and every string i, the direct lookup of dbQuery and
\* of dbQueryOne for {_id: i} returns what the scan with evalQuery returns:
\* [i] (i for dbQueryOne) when i is a key of the store, and [] ("") when not.
C9_FastPathAgrees ==
    \A i \in QueryIds :
        /\ dbQuery(docMap, IdQuery(i)) = MatchingKeys(docMap, IdQuery(i))
        /\ dbQuery(docMap, IdQuery(i)) = IF i \in DOMAIN docMap.docs THEN <<i>> ELSE <<>>
        /\ dbQueryOne(docMap, IdQuery(i)) = FirstMatch(docMap, IdQuery(i))
        /\ dbQueryOne(docMap, IdQuery(i)) = IF i \in DOMAIN docMap.docs THEN i ELSE ""

\* C10: for every query, the ids that dbQuery returns are in the order in
\* which the documents were inserted and dbQueryOne returns the first of them
\* or ""; when the ids are documents of the store, find returns these
\* documents in that order and findOne the first of them or undefined.
C10_InsertionOrder ==
    \A q \in Queries :
        LET ids        == dbQuery(docMap, q)
            matched    == {ids[i] : i \in 1 .. Len(ids)}
            inInserted == SelectSeq(docMap.order, LAMBDA id : id \in matched)
        IN  /\ dbQueryOne(docMap, q) = IF ids = <<>> THEN "" ELSE ids[1]
            /\ matched \subseteq DOMAIN docMap.docs =>
                   /\ ids = inInserted
                   /\ find(docMap, q, EmptyProjection)
                          = Arr([i \in 1 .. Len(inInserted) |-> docMap.docs[inInserted[i]]])
                   /\ findOne(docMap, q, EmptyProjection)
                          = IF inInserted = <<>> THEN Undefined
                            ELSE docMap.docs[inInserted[1]]

----------------------------------------------------------------------------
(* The projection engine on its own: dbProjection applied to documents     *)
(* with and without the listed fields, and find and findOne called with    *)
(* projections of every shape.                                             *)

\* The documents: with val and name, with val only, with _id only
ProjectionDocs(id) ==
    {Obj([_id |-> Str(id), val |-> v, name |-> Str("foo")]) : v \in Vals}
    \cup {Obj([_id |-> Str(id), val |-> Num(1)]), Obj([_id |-> Str(id)])}

\* The stores: one document under "a", or that document after one under "b"
ProjectionStores ==
    {DbSet(EmptyDb, "a", d) : d \in ProjectionDocs("a")}
    \cup {DbSet(DbSet(EmptyDb, "b", Obj([_id |-> Str("b"), val |-> Num(1)])), "a", d) :
              d \in ProjectionDocs("a")}

ProjectionKeys == {"_id", "val", "name"}

\* The values of a projection: truthy and falsy ones
ProjectionValues == {Num(1), Bool(TRUE), Num(0), Bool(FALSE)}

\* The object literals of at most MaxLen keys
KeyedProjections ==
    {Entries(es) : es \in {x \in SeqsUpTo(ProjectionKeys \X ProjectionValues) :
                               \A i, j \in 1 .. Len(x) : i # j => x[i][1] # x[j][1]}}

\* The projections that are no object literal
MalformedProjections == {Str("a"), Num(1), Null, Arr(<<>>)}

InitProjection ==
    /\ docMap \in ProjectionStores
    /\ ctorProps = EmptyMap
    /\ call = NoCall
    /\ handed = {}
    /\ written = Undefined
    /\ NoRegistry

\* dbProjection(doc, projection)
Project ==
    /\ call = NoCall
    /\ \E id \in DOMAIN docMap.docs :
       \E projection \in KeyedProjections \cup MalformedProjections \cup {Undefined} :
           /\ call' = Call("dbProjection", Undefined, projection, docMap.docs[id], Undefined,
                            Undefined, dbProjection(docMap.docs[id], projection))
           /\ UNCHANGED <<docMap, ctorProps, handed, written>>
    /\ UNCHANGED registry

ProjectFind ==
    /\ call = NoCall
    /\ \E query \in {EmptyQuery, KeyQuery("val", Num(1)), KeyQuery("val", Str("a"))} :
       \E projection \in KeyedProjections \cup MalformedProjections :
           /\ call' = Call("find", query, projection, Undefined, Undefined, Undefined,
                            find(docMap, query, projection))
           /\ UNCHANGED <<docMap, ctorProps, handed, written>>
    /\ UNCHANGED registry

ProjectFindOne ==
    /\ call = NoCall
    /\ \E query \in {EmptyQuery, KeyQuery("val", Num(1)), KeyQuery("val", Str("a"))} :
       \E projection \in KeyedProjections \cup MalformedProjections :
           /\ call' = Call("findOne", query, projection, Undefined, Undefined, Undefined,
                            findOne(docMap, query, projection))
           /\ UNCHANGED <<docMap, ctorProps, handed, written>>
    /\ UNCHANGED registry

NextProjection == Project \/ ProjectFind \/ ProjectFindOne \/ Return

SpecProjection == InitProjection /\ [][NextProjection]_vars

----------------------------------------------------------------------------
(* The update engine on its own: dbUpdate applied to one document with a   *)
(* single $inc or $rename sub-operation, over fields of every variant,     *)
(* absent fields and a name that every object inherits.                    *)

\* The stores: one document under "a"
UpdateStores == {DbSet(EmptyDb, "a", d) : d \in QueryDocs("a")}

\* The fields a sub-operation names
UpdateFields == {"_id", "val", "name", "constructor"}

\* The operands of $inc: numeric deltas and values that are no number
Deltas == {Num(1), Str("a"), Bool(TRUE), Null}

\* The operands of $rename: names and a value that is no string
NewNames == {Str(f) : f \in UpdateFields} \cup {Num(1)}

\* {operator: {field: value}}
OneStep(operator, field, value) ==
    Entries(<< <<operator, Entries(<< <<field, value>> >>)>> >>)

IncUpdates == {OneStep("$inc", f, d) : f \in UpdateFields, d \in Deltas}

RenameUpdates == {OneStep("$rename", f, n) : f \in UpdateFields, n \in NewNames}

InitUpdate ==
    /\ docMap \in UpdateStores
    /\ ctorProps = EmptyMap
    /\ call = NoCall
    /\ handed = {}
    /\ written = Undefined
    /\ NoRegistry

\* dbUpdate(doc, update) on the stored document, case "$inc"
Inc ==
    /\ call = NoCall
    /\ \E upd \in IncUpdates :
          LET doc == docMap.docs["a"]
              r   == dbUpdate(doc.m, upd)
          IN  /\ Capped(r.doc)
              /\ docMap' = DbSet(docMap, "a", Obj(r.doc))
              /\ call' = Call("dbUpdate", Undefined, Undefined, doc, upd, Undefined,
                               IF r.thrown # "" THEN Throw(r.thrown) ELSE Num(r.n))
              /\ UNCHANGED <<ctorProps, handed, written>>
    /\ UNCHANGED registry

\* dbUpdate(doc, update) on the stored document, case "$rename"
Rename ==
    /\ call = NoCall
    /\ \E upd \in RenameUpdates :
          LET doc == docMap.docs["a"]
              r   == dbUpdate(doc.m, upd)
          IN  /\ Capped(r.doc)
              /\ docMap' = DbSet(docMap, "a", Obj(r.doc))
              /\ call' = Call("dbUpdate", Undefined, Undefined, doc, upd, Undefined,
                               IF r.thrown # "" THEN Throw(r.thrown) ELSE Num(r.n))
              /\ UNCHANGED <<ctorProps, handed, written>>
    /\ UNCHANGED registry

NextUpdate == Inc \/ Rename \/ Return

SpecUpdate == InitUpdate /\ [][NextUpdate]_vars

----------------------------------------------------------------------------
(* The update engine on whole updates: several operators and several       *)
(* fields in one update, and updates of malformed shape, through dbUpdate  *)
(* and through JsonDB.update.                                              *)

\* The sub-operations an update lists: <<operator, field, value>>
SubOperations ==
    {<<"$inc", "val", Num(1)>>, <<"$inc", "val", Str("a")>>,
     <<"$push", "val", Num(1)>>,
     <<"$rename", "val", Str("name")>>, <<"$rename", "constructor", Str("name")>>,
     <<"$set", "name", Str("a")>>, <<"$set", "_id", Str("b")>>,
     <<"$unset", "val", Num(1)>>, <<"$unset", "val", Num(0)>>,
     <<"$unset", "constructor", Num(1)>>}

\* An object literal names an operator once and, under it, a field once
IsListing(steps) ==
    \A i, j \in 1 .. Len(steps) :
        (i < j /\ steps[i][1] = steps[j][1]) =>
            /\ steps[i][2] # steps[j][2]
            /\ \A k \in i .. j : steps[k][1] = steps[i][1]

\* The entries of the update that lists the sub-operations in this order
RECURSIVE GroupSteps(_, _)
GroupSteps(steps, i) ==
    IF i > Len(steps) THEN <<>>
    ELSE LET rest  == GroupSteps(steps, i + 1)
             field == << <<steps[i][2], steps[i][3]>> >>
         IN  IF rest # <<>> /\ rest[1][1] = steps[i][1]
             THEN << <<steps[i][1], Entries(field \o rest[1][2].e)>> >> \o Tail(rest)
             ELSE << <<steps[i][1], Entries(field)>> >> \o rest

\* The updates of one to MaxLen sub-operations
ListedUpdates ==
    {Entries(GroupSteps(steps, 1)) :
        steps \in {x \in SeqsUpTo(SubOperations) : Len(x) > 0 /\ IsListing(x)}}

\* The updates of malformed shape: no object, an array, null, no operator,
\* an unknown operator, and a known operator whose operand is no mapping
MalformedUpdates ==
    {Str("a"), Num(1), Arr(<<>>), Null, Entries(<<>>),
     Entries(<< <<"$foo", Entries(<< <<"val", Num(1)>> >>)>> >>),
     Entries(<< <<"$set", Null>> >>),
     Entries(<< <<"$set", Str("a")>> >>),
     Entries(<< <<"$set", Arr(<<Num(1)>>)>> >>),
     Entries(<< <<"$inc", Num(1)>> >>),
     Entries(<< <<"$unset", Bool(TRUE)>> >>)}

\* No number above MaxVal and no array longer than MaxLen: the cap on what
\* $inc and $push may build
Bounded(m) ==
    /\ Capped(m)
    /\ \A k \in DOMAIN m : m[k].t = "array" => Len(m[k].a) <= MaxLen

\* dbUpdate(doc, update) with an update that lists sub-operations
DbUpdateListed ==
    /\ call = NoCall
    /\ \E upd \in ListedUpdates :
          LET doc == docMap.docs["a"]
              r   == dbUpdate(doc.m, upd)
          IN  /\ Bounded(r.doc)
              /\ docMap' = DbSet(docMap, "a", Obj(r.doc))
              /\ call' = Call("dbUpdate", Undefined, Undefined, doc, upd, Undefined,
                               IF r.thrown # "" THEN Throw(r.thrown) ELSE Num(r.n))
              /\ UNCHANGED <<ctorProps, handed, written>>
    /\ UNCHANGED registry

\* dbUpdate(doc, update) with an update of malformed shape
DbUpdateMalformed ==
    /\ call = NoCall
    /\ \E upd \in MalformedUpdates :
          LET doc == docMap.docs["a"]
              r   == dbUpdate(doc.m, upd)
          IN  /\ docMap' = DbSet(docMap, "a", Obj(r.doc))
              /\ call' = Call("dbUpdate", Undefined, Undefined, doc, upd, Undefined,
                               IF r.thrown # "" THEN Throw(r.thrown) ELSE Num(r.n))
              /\ UNCHANGED <<ctorProps, handed, written>>
    /\ UNCHANGED registry

\* JsonDB.update(query, update, options) with an update of malformed shape
UpdateMalformed ==
    /\ call = NoCall
    /\ \E upd \in MalformedUpdates, options \in OptionSets :
          \E r \in {update(docMap, ctorProps, EmptyQuery, upd, options)} :
          /\ docMap' = r.db
          /\ ctorProps' = r.ctor
          /\ call' = Call("update", EmptyQuery, Undefined, docMap.docs["a"], upd, options, r.ret)
          /\ handed' = dbQueryHands(docMap, EmptyQuery)
          /\ written' = IF r.save THEN save(r.db) ELSE Undefined
    /\ UNCHANGED registry

NextUpdates == DbUpdateListed \/ DbUpdateMalformed \/ UpdateMalformed \/ Return

SpecUpdates == InitUpdate /\ [][NextUpdates]_vars

----------------------------------------------------------------------------
(* The id generator step by step: insert of a document without a usable    *)
(* _id calls makeId, which calls uid and calls itself again while the id   *)
(* drawn is taken.  call.op is the position: "uid" when an id was drawn    *)
(* and is to be tested, "makeId" when makeId returned it.                  *)

\* The index of a code unit in the alphabet, from 0
IndexOf(c) == CHOOSE i \in 0 .. Len(alphabet) - 1 : alphabet[i + 1] = c

\* The draws of uid(16): sequences of 16 values of
\* Math.floor(Math.random() * alphabet.length)
DrawSeqs == {[i \in 1 .. 16 |-> IndexOf(CharCodes(str)[i])] : str \in UidStrings}

\* The documents inserted without an _id
NewDocs == {Obj([val |-> v]) : v \in Vals}

\* The ids a caller gives: ids the generator can draw
TakenIds == {"gggggggggggggggg", "hhhhhhhhhhhhhhhh"}

\* insert(doc) with an _id the generator can draw
InsertTaken ==
    /\ call = NoCall
    /\ \E id \in TakenIds, v \in Vals :
          LET doc == Obj([_id |-> Str(id), val |-> v])
              r   == insert(docMap, doc, Undefined, "")
          IN  /\ docMap' = r.db
              /\ call' = Call("insert", Undefined, Undefined, doc, Undefined, Undefined, r.ret)
              /\ written' = IF r.save THEN save(r.db) ELSE Undefined
              /\ UNCHANGED <<ctorProps, handed>>
    /\ UNCHANGED registry

\* remove({_id: id})
RemoveTaken ==
    /\ call = NoCall
    /\ \E id \in TakenIds :
          \E r \in {remove(docMap, IdQuery(id), Undefined)} :
          /\ docMap' = r.db
          /\ call' = Call("remove", IdQuery(id), Undefined, Undefined, Undefined, Undefined, r.ret)
          /\ written' = IF r.save THEN save(r.db) ELSE Undefined
          /\ UNCHANGED <<ctorProps, handed>>
    /\ UNCHANGED registry

\* insert(doc, options) of a document without _id: dbInsert, insertDoc,
\* makeId and its first uid(16)
MakeId ==
    /\ call = NoCall
    /\ \E doc \in NewDocs, options \in OptionSets, draws \in DrawSeqs :
          call' = Call("uid", Undefined, Undefined, doc, Undefined, options, Str(uid(16, draws)))
    /\ UNCHANGED <<docMap, ctorProps, handed, written>>
    /\ UNCHANGED registry

\* makeId: db[id] !== undefined, so makeId(db) again and its uid(16)
UidAgain(draws) ==
    /\ call.op = "uid"
    /\ DbGet(docMap, call.ret.s) # Undefined
    /\ call' = [call EXCEPT !.ret = Str(uid(16, draws))]
    /\ UNCHANGED <<docMap, ctorProps, handed, written>>
    /\ UNCHANGED registry

MakeIdAgain == \E draws \in DrawSeqs : UidAgain(draws)

\* makeId: db[id] === undefined, so return id
MakeIdReturn ==
    /\ call.op = "uid"
    /\ DbGet(docMap, call.ret.s) = Undefined
    /\ call' = [call EXCEPT !.op = "makeId"]
    /\ UNCHANGED <<docMap, ctorProps, handed, written>>
    /\ UNCHANGED registry

\* insertDoc stores the clone under the id and insert saves and returns
InsertDoc ==
    /\ call.op = "makeId"
    /\ LET r == insert(docMap, call.doc, call.options, call.ret.s) IN
       /\ docMap' = r.db
       /\ call' = [call EXCEPT !.op = "insert", !.ret = r.ret]
       /\ written' = IF r.save THEN save(r.db) ELSE Undefined
       /\ UNCHANGED <<ctorProps, handed>>
    /\ UNCHANGED registry

\* insert or remove has returned
ReturnId ==
    /\ call.op \in {"insert", "remove"}
    /\ call' = NoCall
    /\ handed' = {}
    /\ written' = Undefined
    /\ UNCHANGED <<docMap, ctorProps>>
    /\ UNCHANGED registry

NextId ==
    \/ InsertTaken \/ RemoveTaken
    \/ MakeId \/ MakeIdAgain \/ MakeIdReturn \/ InsertDoc
    \/ ReturnId

SpecId == Init /\ [][NextId]_vars

\* Fair random draws: a string that uid can return is returned by some call
\* of an unending sequence of calls; makeId and insert run to completion
SpecIdFair ==
    /\ SpecId
    /\ \A draws \in DrawSeqs : SF_vars(UidAgain(draws))
    /\ WF_vars(MakeIdReturn)
    /\ WF_vars(InsertDoc)

----------------------------------------------------------------------------
(* Persistence: insert, remove and update on a store with the document     *)
(* "a", with and without skipSave, the updates including ones that throw   *)
(* after a sub-operation has acted.                                        *)

\* The updates: one sub-operation, and two of which the second throws
SavedUpdates ==
    {OneStep("$inc", "val", Num(1)),
     OneStep("$set", "name", Str("a")),
     OneStep("$unset", "val", Num(1)),
     OneStep("$rename", "constructor", Str("name")),
     Entries(GroupSteps(<< <<"$inc", "val", Num(1)>>,
                           <<"$rename", "constructor", Str("name")>> >>, 1))}

\* undefined, {} and {skipSave: true}
SaveOptions == {Undefined, Entries(<<>>), Entries(<< <<"skipSave", Bool(TRUE)>> >>)}

\* insert(doc, options) of a document with the _id "b" or without _id
SaveInsert ==
    /\ call = NoCall
    /\ \E doc \in NewDocs \cup {Obj([_id |-> Str("b"), val |-> v]) : v \in Vals},
          options \in SaveOptions :
       \E genId \in IF HasUsableId(doc) THEN {""} ELSE makeId(docMap) :
          \E r \in {insert(docMap, doc, options, genId)} :
          /\ Cardinality(DOMAIN r.db.docs) <= MaxDocs
          /\ docMap' = r.db
          /\ call' = Call("insert", Undefined, Undefined, doc, Undefined, options, r.ret)
          /\ written' = IF r.save THEN save(r.db) ELSE Undefined
          /\ UNCHANGED <<ctorProps, handed>>
    /\ UNCHANGED registry

\* remove(query, options) of the documents other than "a"
SaveRemove ==
    /\ call = NoCall
    /\ \E id \in DOMAIN docMap.docs \ {"a"}, options \in SaveOptions :
          \E r \in {remove(docMap, IdQuery(id), options)} :
          /\ docMap' = r.db
          /\ call' = Call("remove", IdQuery(id), Undefined, Undefined, Undefined, options, r.ret)
          /\ written' = IF r.save THEN save(r.db) ELSE Undefined
          /\ UNCHANGED <<ctorProps, handed>>
    /\ UNCHANGED registry

\* update({_id: "a"}, update, options)
SaveUpdate ==
    /\ call = NoCall
    /\ \E upd \in SavedUpdates, options \in SaveOptions :
          \E r \in {update(docMap, ctorProps, IdQuery("a"), upd, options)} :
          /\ Bounded(r.db.docs["a"].m)
          /\ docMap' = r.db
          /\ ctorProps' = r.ctor
          /\ call' = Call("update", IdQuery("a"), Undefined, docMap.docs["a"], upd, options, r.ret)
          /\ handed' = dbQueryHands(docMap, IdQuery("a"))
          /\ written' = IF r.save THEN save(r.db) ELSE Undefined
    /\ UNCHANGED registry

NextSave == SaveInsert \/ SaveRemove \/ SaveUpdate \/ Return

SpecSave == InitUpdate /\ [][NextSave]_vars

----------------------------------------------------------------------------
(* The registry: initDb names the directory, getDb gives a handle on the   *)
(* store of a name and loads it from its snapshot file when dbHolder has   *)
(* no store for the name, closeDb drops the entry of a name, and a handle  *)
(* inserts, updates and removes in the store it was given.                 *)

\* The number of stores getDb loads
MaxStores == 2

\* The names the callers give to getDb and to closeDb
NameArgs == {"db", "db.json", "constructor"}

\* The store object that is stores[i]
StoreRef(i) == Value("object", i, "", <<>>, EmptyMap, <<>>)

\* new JsonDB(dbName, docMap)
JsonDB(dbName, store) == Obj([dbName |-> Str(dbName), docMap |-> store])

\* dbName.endsWith(".json") ? dbName.slice(0, -5) : dbName, of every name
\* the callers give
StripJson ==
    [dbName \in NameArgs |->
        LET cs     == CharCodes(dbName)
            suffix == CharCodes(".json")
            n      == Len(cs) - Len(suffix)
        IN  IF n >= 0 /\ SubSeq(cs, n + 1, Len(cs)) = suffix
            THEN CHOOSE str \in NameArgs : CharCodes(str) = SubSeq(cs, 1, n)
            ELSE dbName]

\* The content of a file that is not JSON
Unparsable == Str("{")

\* The properties JSON.parse creates, in the order of the text
RECURSIVE ParseEntries(_, _, _)
ParseEntries(es, i, db) ==
    IF i > Len(es) THEN db ELSE ParseEntries(es, i + 1, DbSet(db, es[i][1], es[i][2]))

\* JSON.parse(content): the store of a snapshot, a SyntaxError for other text
JSONParse(content) ==
    IF content.t = "entries"
    THEN [thrown |-> "", db |-> ParseEntries(content.e, 1, EmptyDb)]
    ELSE [thrown |-> "SyntaxError", db |-> EmptyDb]

\* existsSync(fileName) and readFileSync(fileName): the content, Undefined for no file
ReadFile(dbName) == IF dbName \in DOMAIN files THEN files[dbName] ELSE Undefined

\* getDb(dbName) if it read the snapshot file on every call
getDbReading(name) ==
    IF dbDir = ""
    THEN [ret |-> Throw("Database directory is not set"), dbHolder |-> dbHolder, stores |-> stores]
    ELSE LET dbName == StripJson[name] IN
         IF ReadFile(dbName) = Undefined
         THEN [ret |-> Throw("Database not found"), dbHolder |-> dbHolder, stores |-> stores]
         ELSE LET parsed == JSONParse(ReadFile(dbName))
                  db     == StoreRef(Len(stores) + 1)
              IN  IF parsed.thrown # ""
                  THEN [ret |-> Throw("Database read failed"),
                        dbHolder |-> dbHolder, stores |-> stores]
                  ELSE [ret |-> JsonDB(dbName, db),
                        dbHolder |-> SetProp(dbHolder, dbName, db),
                        stores |-> Append(stores, parsed.db)]

\* getDb(dbName): what it returns or throws, dbHolder and the stores after it
getDb(name) ==
    IF dbDir = ""
    THEN [ret |-> Throw("Database directory is not set"), dbHolder |-> dbHolder, stores |-> stores]
    ELSE LET dbName == StripJson[name] IN
         IF Truthy(GetProp(dbHolder, dbName))
         THEN [ret |-> JsonDB(dbName, GetProp(dbHolder, dbName)),
               dbHolder |-> dbHolder, stores |-> stores]
         ELSE IF ReadFile(dbName) = Undefined
         THEN [ret |-> Throw("Database not found"), dbHolder |-> dbHolder, stores |-> stores]
         ELSE LET parsed == JSONParse(ReadFile(dbName))
                  db     == StoreRef(Len(stores) + 1)
              IN  IF parsed.thrown # ""
                  THEN [ret |-> Throw("Database read failed"),
                        dbHolder |-> dbHolder, stores |-> stores]
                  ELSE [ret |-> JsonDB(dbName, db),
                        dbHolder |-> SetProp(dbHolder, dbName, db),
                        stores |-> Append(stores, parsed.db)]

\* closeDb(name): dbHolder after it
closeDb(name) ==
    IF Truthy(GetProp(dbHolder, name)) THEN DeleteProp(dbHolder, name) ELSE dbHolder

\* The snapshot files the directory starts with and another process writes
FileContents ==
    {Undefined, Unparsable, save(EmptyDb), save(DbSet(EmptyDb, "a", Obj([_id |-> Str("a")])))}

\* The documents, the options and the update the handles are called with
HandleDocs == {Obj([_id |-> Str("b")])}

HandleOptions == {Entries(<<>>), Entries(<< <<"skipSave", Bool(TRUE)>> >>)}

HandleUpdate == OneStep("$set", "name", Str("a"))

\* The handles on a store
StoreHandles == {h \in handles : h.m["docMap"].t = "object"}

\* The store of a handle
StoreOf(h) == stores[h.m["docMap"].n]

\* stores after handle h left its store as db
StoresWith(h, db) == [stores EXCEPT ![h.m["docMap"].n] = db]

\* The files after the save() of handle h, if the method called it
FilesWith(h, r) ==
    IF r.save THEN [files EXCEPT ![h.m["dbName"].s] = save(r.db)] ELSE files

InitRegistry ==
    /\ docMap = EmptyDb
    /\ ctorProps = EmptyMap
    /\ call = NoCall
    /\ handed = {}
    /\ written = Undefined
    /\ dbDir = ""
    /\ files \in [FileNames -> FileContents]
    /\ dbHolder = EmptyMap
    /\ stores = <<>>
    /\ handles = {}

\* initDb("dir")
InitDb ==
    /\ call = NoCall
    /\ dbDir' = "dir"
    /\ call' = Call("initDb", Undefined, Undefined, Str("dir"), Undefined, Undefined, Undefined)
    /\ UNCHANGED <<docMap, ctorProps, handed, written, files, dbHolder, stores, handles>>

\* getDb(name)
GetDb ==
    /\ call = NoCall
    /\ \E name \in NameArgs :
          \E r \in {getDb(name)} :
          /\ Len(r.stores) <= MaxStores
          /\ dbHolder' = r.dbHolder
          /\ stores' = r.stores
          /\ handles' = IF IsThrow(r.ret) THEN handles ELSE handles \cup {r.ret}
          /\ call' = Call("getDb", Undefined, Undefined, Str(name), Undefined, Undefined, r.ret)
    /\ UNCHANGED <<docMap, ctorProps, handed, written, dbDir, files>>

\* closeDb(name)
CloseDb ==
    /\ call = NoCall
    /\ \E name \in NameArgs :
          /\ dbHolder' = closeDb(name)
          /\ call' = Call("closeDb", Undefined, Undefined, Str(name), Undefined, Undefined, Undefined)
    /\ UNCHANGED <<docMap, ctorProps, handed, written, dbDir, files, stores, handles>>

\* h.insert(doc, options) through a handle h
HandleInsert ==
    /\ call = NoCall
    /\ \E h \in StoreHandles, doc \in HandleDocs, options \in HandleOptions :
          \E r \in {insert(StoreOf(h), doc, options, "")} :
          /\ stores' = StoresWith(h, r.db)
          /\ files' = FilesWith(h, r)
          /\ written' = IF r.save THEN save(r.db) ELSE Undefined
          /\ call' = Call("insert", h, Undefined, doc, Undefined, options, r.ret)
    /\ UNCHANGED <<docMap, ctorProps, handed, dbDir, dbHolder, handles>>

\* h.remove({_id: id}, options) through a handle h
HandleRemove ==
    /\ call = NoCall
    /\ \E h \in StoreHandles, id \in {"a"}, options \in HandleOptions :
          \E r \in {remove(StoreOf(h), IdQuery(id), options)} :
          /\ stores' = StoresWith(h, r.db)
          /\ files' = FilesWith(h, r)
          /\ written' = IF r.save THEN save(r.db) ELSE Undefined
          /\ call' = Call("remove", h, Undefined, Undefined, Undefined, options, r.ret)
    /\ UNCHANGED <<docMap, ctorProps, handed, dbDir, dbHolder, handles>>

\* h.update({_id: "a"}, {$set: {name: "a"}}, options) through a handle h
HandleUpdateCall ==
    /\ call = NoCall
    /\ \E h \in StoreHandles, options \in HandleOptions :
          \E r \in {update(StoreOf(h), ctorProps, IdQuery("a"), HandleUpdate, options)} :
          /\ stores' = StoresWith(h, r.db)
          /\ files' = FilesWith(h, r)
          /\ ctorProps' = r.ctor
          /\ written' = IF r.save THEN save(r.db) ELSE Undefined
          /\ call' = Call("update", h, Undefined, Undefined, HandleUpdate, options, r.ret)
    /\ UNCHANGED <<docMap, handed, dbDir, dbHolder, handles>>

\* Another process replaces or deletes a snapshot file
FileChange ==
    /\ call = NoCall
    /\ \E name \in FileNames, content \in FileContents :
          /\ files[name] # content
          /\ files' = [files EXCEPT ![name] = content]
    /\ UNCHANGED <<docMap, ctorProps, call, handed, written, dbDir, dbHolder, stores, handles>>

NextRegistry ==
    InitDb \/ GetDb \/ CloseDb \/ HandleInsert \/ HandleRemove \/ HandleUpdateCall
        \/ FileChange \/ Return

SpecRegistry == InitRegistry /\ [][NextRegistry]_vars

----------------------------------------------------------------------------
(* The dispatch facade: callDbAction looks the action up by its name and   *)
(* the action checks the request, gets the handle of the database and      *)
(* calls the method; the answer is {status, err, data}.                    *)

\* The own properties of routActionMap
routActionMap ==
    [count   |-> Fn("countAction"),
     find    |-> Fn("findAction"),
     findOne |-> Fn("findOneAction"),
     insert  |-> Fn("insertAction"),
     remove  |-> Fn("removeAction"),
     update  |-> Fn("updateAction"),
     save    |-> Fn("saveAction")]

\* {status, err, data}
ApiRes(status, err, data) == Obj([status |-> Num(status), err |-> err, data |-> data])

\* typeof x !== "object" || x === null
NotObject(x) == TypeOf(x) # "object" \/ x = Null

\* An action that returns before its try block: the answer, nothing else changes
Answer(res) ==
    [res |-> res, dbHolder |-> dbHolder, stores |-> stores, files |-> files,
     ctor |-> ctorProps, written |-> Undefined]

\* The store of the handle that getDb(dbName) returns in the try block of an
\* action: none when getDb throws
Opened(dbName) ==
    {g.stores[g.ret.m["docMap"].n] : g \in {h \in {getDb(dbName.s)} : ~IsThrow(h.ret)}}

\* The try block of an action: getDb(dbName), then the method on the store of
\* the handle, rs holding what the method returns, the store and the
\* properties of the Object constructor it leaves and whether it called
\* save; an exception of either is caught and answered with status 500
Try(dbName, rs, data) ==
    CHOOSE out \in
        {IF IsThrow(g.ret)
         THEN [res |-> ApiRes(500, Str(g.ret.s), data), dbHolder |-> g.dbHolder,
               stores |-> g.stores, files |-> files, ctor |-> ctorProps, written |-> Undefined]
         ELSE CHOOSE done \in
                 {[res      |-> IF IsThrow(r.ret) THEN ApiRes(500, Str(r.ret.s), data)
                                ELSE ApiRes(200, Null, r.ret),
                   dbHolder |-> g.dbHolder,
                   stores   |-> [g.stores EXCEPT ![g.ret.m["docMap"].n] = r.db],
                   files    |-> IF r.save
                                THEN [files EXCEPT ![g.ret.m["dbName"].s] = save(r.db)]
                                ELSE files,
                   ctor     |-> r.ctor,
                   written  |-> IF r.save THEN save(r.db) ELSE Undefined] : r \in rs} : TRUE :
            g \in {getDb(dbName.s)}} : TRUE

\* What a method returns, the store and the properties of the Object
\* constructor it leaves, and whether it called save
Done(db, ctor, ret, saved) == [db |-> db, ctor |-> ctor, ret |-> ret, save |-> saved]

countAction(req) ==
    LET dbName == GetProp(req.m, "dbName")
        query  == GetProp(req.m, "query")
    IN  IF TypeOf(dbName) # "string"
        THEN Answer(ApiRes(400, Str("Invalid dbName provided"), Num(0)))
        ELSE IF NotObject(query)
        THEN Answer(ApiRes(400, Str("Invalid query provided"), Num(0)))
        ELSE Try(dbName,
                 {Done(db, ctorProps, count(db, q), FALSE) : db \in Opened(dbName), q \in {query}},
                 Num(0))

findAction(req) ==
    LET dbName     == GetProp(req.m, "dbName")
        query      == GetProp(req.m, "query")
        projection == GetProp(req.m, "projection")
    IN  IF TypeOf(dbName) # "string"
        THEN Answer(ApiRes(400, Str("Invalid dbName provided"), Arr(<<>>)))
        ELSE IF NotObject(query)
        THEN Answer(ApiRes(400, Str("Invalid query provided"), Arr(<<>>)))
        ELSE IF NotObject(projection)
        THEN Answer(ApiRes(400, Str("Invalid projection provided"), Arr(<<>>)))
        ELSE Try(dbName,
                 {Done(db, ctorProps, find(db, q, p), FALSE) :
                     db \in Opened(dbName), q \in {query}, p \in {projection}},
                 Arr(<<>>))

findOneAction(req) ==
    LET dbName     == GetProp(req.m, "dbName")
        query      == GetProp(req.m, "query")
        projection == GetProp(req.m, "projection")
    IN  IF TypeOf(dbName) # "string"
        THEN Answer(ApiRes(400, Str("Invalid dbName provided"), Null))
        ELSE IF NotObject(query)
        THEN Answer(ApiRes(400, Str("Invalid query provided"), Null))
        ELSE IF NotObject(projection)
        THEN Answer(ApiRes(400, Str("Invalid projection provided"), Null))
        ELSE Try(dbName,
                 {Done(db, ctorProps, findOne(db, q, p), FALSE) :
                     db \in Opened(dbName), q \in {query}, p \in {projection}},
                 Null)

\* The test of options is typeof options !== "object" && options === null
insertAction(req) ==
    LET dbName  == GetProp(req.m, "dbName")
        doc     == GetProp(req.m, "doc")
        options == GetProp(req.m, "options")
    IN  IF TypeOf(dbName) # "string"
        THEN Answer(ApiRes(400, Str("Invalid dbName provided"), Null))
        ELSE IF NotObject(doc)
        THEN Answer(ApiRes(400, Str("Invalid doc provided"), Null))
        ELSE IF TypeOf(options) # "object" /\ options = Null
        THEN Answer(ApiRes(400, Str("Invalid options provided"), Null))
        ELSE Try(dbName,
                 {Done(r.db, ctorProps, r.ret, r.save) :
                     r \in {insert(db, d, o, "gggggggggggggggg") :
                               db \in Opened(dbName), d \in {doc}, o \in {options}}},
                 Null)

removeAction(req) ==
    LET dbName  == GetProp(req.m, "dbName")
        query   == GetProp(req.m, "query")
        options == GetProp(req.m, "options")
    IN  IF TypeOf(dbName) # "string"
        THEN Answer(ApiRes(400, Str("Invalid dbName provided"), Num(0)))
        ELSE IF NotObject(query)
        THEN Answer(ApiRes(400, Str("Invalid query provided"), Num(0)))
        ELSE IF NotObject(options)
        THEN Answer(ApiRes(400, Str("Invalid options provided"), Num(0)))
        ELSE Try(dbName,
                 {Done(r.db, ctorProps, r.ret, r.save) :
                     r \in {remove(db, q, o) :
                               db \in Opened(dbName), q \in {query}, o \in {options}}},
                 Num(0))

updateAction(req) ==
    LET dbName  == GetProp(req.m, "dbName")
        query   == GetProp(req.m, "query")
        upd     == GetProp(req.m, "update")
        options == GetProp(req.m, "options")
    IN  IF TypeOf(dbName) # "string"
        THEN Answer(ApiRes(400, Str("Invalid dbName provided"), Num(0)))
        ELSE IF NotObject(query)
        THEN Answer(ApiRes(400, Str("Invalid query provided"), Num(0)))
        ELSE IF NotObject(upd)
        THEN Answer(ApiRes(400, Str("Invalid options provided"), Num(0)))
        ELSE IF NotObject(options)
        THEN Answer(ApiRes(400, Str("Invalid options provided"), Num(0)))
        ELSE Try(dbName,
                 {update(db, ctorProps, q, u, o) :
                     db \in Opened(dbName), q \in {query}, u \in {upd}, o \in {options}},
                 Num(0))

saveAction(req) ==
    LET dbName == GetProp(req.m, "dbName") IN
    IF TypeOf(dbName) # "string"
    THEN Answer(ApiRes(400, Str("Invalid dbName provided"), Num(0)))
    ELSE Try(dbName, {Done(db, ctorProps, Num(1), TRUE) : db \in Opened(dbName)}, Num(0))

\* callDbAction(req): routActionMap[req.actionName] is an own property, an
\* action, or a member that routActionMap inherits; Object(req) is req
callDbAction(req) ==
    LET action == GetProp(routActionMap, GetProp(req.m, "actionName").s) IN
    IF ~Truthy(action)
    THEN Answer(ApiRes(400, Str("Invalid actionName"), Null))
    ELSE CASE action = Fn("countAction")   -> countAction(req)
           [] action = Fn("findAction")    -> findAction(req)
           [] action = Fn("findOneAction") -> findOneAction(req)
           [] action = Fn("insertAction")  -> insertAction(req)
           [] action = Fn("removeAction")  -> removeAction(req)
           [] action = Fn("updateAction")  -> updateAction(req)
           [] action = Fn("saveAction")    -> saveAction(req)
           [] action = Fn("Object")        -> Answer(req)

\* The requests: the names of the actions, a name routActionMap does not
\* have and one it inherits; a database name and a number in its place; for
\* each argument an object, an array, null, a number and nothing
ApiNames == {Str("db"), Num(1)}

ApiQueries == {Undefined, Null, Arr(<<>>), EmptyQuery, IdQuery("a"), KeyQuery("val", Null)}

ApiProjections == {Undefined, Arr(<<>>), EmptyProjection}

ApiDocs == {Undefined, Null, Arr(<<>>), Obj([_id |-> Str("b")]), Obj([val |-> Num(1)])}

ApiUpdates == {Undefined, Arr(<<>>), HandleUpdate, Entries(<< <<"$set", Null>> >>)}

ApiOptions == {Undefined, Null, Num(1), Arr(<<>>), Entries(<<>>)}

ApiReqs ==
    {Obj([actionName |-> Str(a), dbName |-> n]) :
        a \in {"save", "foo", "constructor"}, n \in ApiNames}
    \cup {Obj([actionName |-> Str("count"), dbName |-> n, query |-> q]) :
             n \in ApiNames, q \in ApiQueries}
    \cup {Obj([actionName |-> Str(a), dbName |-> n, query |-> q, projection |-> p]) :
             a \in {"find", "findOne"}, n \in ApiNames, q \in ApiQueries, p \in ApiProjections}
    \cup {Obj([actionName |-> Str("insert"), dbName |-> n, doc |-> d, options |-> o]) :
             n \in ApiNames, d \in ApiDocs, o \in ApiOptions}
    \cup {Obj([actionName |-> Str("remove"), dbName |-> n, query |-> q, options |-> o]) :
             n \in ApiNames, q \in ApiQueries, o \in ApiOptions}
    \cup {Obj([actionName |-> Str("update"), dbName |-> n, query |-> q, update |-> u,
               options |-> o]) :
             n \in ApiNames, q \in ApiQueries, u \in ApiUpdates, o \in ApiOptions}

\* callDbAction(req)
CallDbAction ==
    /\ call = NoCall
    /\ \E req \in ApiReqs :
       \E r \in {callDbAction(req)} :
          /\ Len(r.stores) <= MaxStores
          /\ dbHolder' = r.dbHolder
          /\ stores' = r.stores
          /\ files' = r.files
          /\ ctorProps' = r.ctor
          /\ written' = r.written
          /\ call' = Call("callDbAction", Undefined, Undefined, req, Undefined, Undefined, r.res)
    /\ UNCHANGED <<docMap, handed, dbDir, handles>>

NextApi == InitDb \/ CallDbAction \/ FileChange \/ Return

SpecApi == InitRegistry /\ [][NextApi]_vars

----------------------------------------------------------------------------
(* Properties of the query engine *)

QueryMethods == {"count", "find", "findOne", "remove", "update"}

\* What a method returns for an invalid query
InvalidReturn(op) ==
    CASE op \in {"count", "remove", "update"} -> Num(0)
      [] op = "find" -> Arr(<<>>)
      [] op = "findOne" -> Undefined

\* The field val of a document: its own property, or undefined
FieldOf(doc) == IF "val" \in DOMAIN doc.m THEN doc.m["val"] ELSE Undefined

\* A scalar of the value model
IsScalar(v) == v.t \in {"number", "string", "boolean", "null"}

\* C11: count, find, findOne, remove and update return for every query
\* value without raising an exception; for a query that is not valid they
\* return 0, [], undefined, 0 and 0 and leave the store unchanged.
C11_QueriesNeverRaise ==
    [][(call = NoCall /\ call'.op \in QueryMethods)
       => /\ ~IsThrow(call'.ret)
          /\ validateQuery(call'.query) # Bool(TRUE) =>
                 (call'.ret = InvalidReturn(call'.op) /\ docMap' = docMap)]_vars

\* C12: a query {val: v} of a scalar v (number, string, boolean or null) is
\* valid, and it matches a document iff the document's val is strictly equal
\* to v.
C12_ScalarIsEquality ==
    call.query \in ScalarQueries =>
        /\ call.op = "validateQuery" => call.ret = Bool(TRUE)
        /\ call.op = "evalQuery" =>
               call.ret = Bool(FieldOf(call.doc) = call.query.e[1][2])

TypeNames == {"number", "string", "boolean", "null", "array", "object"}

\* The operand types of the operator table
OperandContract(operator, operand) ==
    CASE operator = "$exists" -> operand \in {Bool(TRUE), Bool(FALSE), Num(1), Num(0)}
      [] operator \in {"$eq", "$ne", "$includes"} -> IsScalar(operand)
      [] operator \in {"$gt", "$gte", "$lt", "$lte"} -> operand.t \in {"number", "string"}
      [] operator \in {"$in", "$nin"} ->
           operand.t = "array" /\ \A i \in 1 .. Len(operand.a) : IsScalar(operand.a[i])
      [] operator = "$like" -> operand.t = "string"
      [] operator = "$type" -> operand.t = "string" /\ operand.s \in TypeNames
      [] OTHER -> FALSE

\* C13: validateQuery accepts {val: {operator: operand}} iff the operator is
\* one of the twelve known operators and the operand has the type that the
\* operator table gives for it.
C13_OperandContract ==
    (call.op = "validateQuery" /\ call.query \in OperatorQueries) =>
        call.ret = Bool(OperandContract(call.query.e[1][2].e[1][1], call.query.e[1][2].e[1][2]))

\* The dynamic variant of a value: number, string, boolean, null, array or
\* object, and undefined for an absent field
Variant(v) == IF v.t \in TypeNames THEN v.t ELSE "undefined"

\* C14: {val: {$type: T}} matches a document iff T is the variant of its val:
\* an array matches only "array", null only "null" and a mapping only "object".
C14_TypeIsVariant ==
    (call.op = "evalQuery" /\ call.query \in {OperatorQuery("$type", Str(T)) : T \in TypeNames}) =>
        call.ret = Bool(Variant(FieldOf(call.doc)) = call.query.e[1][2].e[1][2].s)

\* The Boolean semantics of a query: every key holds; $and holds iff every
\* subquery holds, $or iff some subquery holds, $not iff the nested query
\* does not hold, and a field key iff every operator of its operator set
\* holds, or the field is strictly equal to a scalar operand
RECURSIVE Holds(_, _)
Holds(doc, query) ==
    \A i \in 1 .. Len(query.e) :
        LET key     == query.e[i][1]
            operand == query.e[i][2]
        IN  CASE key = "$and" -> \A j \in 1 .. Len(operand.a) : Holds(doc, operand.a[j])
              [] key = "$or"  -> \E j \in 1 .. Len(operand.a) : Holds(doc, operand.a[j])
              [] key = "$not" -> ~Holds(doc, operand)
              [] OTHER ->
                   IF operand.t = "entries"
                   THEN \A j \in 1 .. Len(operand.e) :
                            evalOperator(FieldOf(doc), operand.e[j][1], operand.e[j][2])
                   ELSE FieldOf(doc) = operand

\* C15: evalQuery follows the Boolean semantics for every document and every
\* valid query built from $and, $or, $not and field keys, nested or side by
\* side.
C15_BooleanSemantics ==
    (call.op = "evalQuery" /\ call.query \in BooleanQueries) =>
        call.ret = Bool(Holds(call.doc, call.query))

\* evalQuery has rejected a document for an $or of no subquery
C15_Witness ==
    /\ call.op = "evalQuery"
    /\ call.query = KeyQuery("$or", Arr(<<>>))
    /\ call.ret = Bool(FALSE)

----------------------------------------------------------------------------
(* Properties of the projection engine *)

\* The keys a projection lists
Listed(projection) == {projection.e[i][1] : i \in 1 .. Len(projection.e)}

\* A projection holds a truthy and a falsy value
IsMixed(projection) ==
    /\ projection.t = "entries"
    /\ \E i \in 1 .. Len(projection.e) : Truthy(projection.e[i][2])
    /\ \E i \in 1 .. Len(projection.e) : ~Truthy(projection.e[i][2])

\* A projection is an object literal whose values are all truthy or all falsy
IsValidProjection(projection) == projection.t = "entries" /\ ~IsMixed(projection)

\* C16: dbProjection returns undefined, and no partial document, for every
\* projection that holds a truthy and a falsy value, whatever its keys.
C16_MixedRejected ==
    (call.op = "dbProjection" /\ IsMixed(call.projection)) => call.ret = Undefined

\* dbProjection has rejected a projection that lists _id with a falsy value
\* beside a truthy one
C16_Witness ==
    /\ call.op = "dbProjection"
    /\ call.projection = Entries(<< <<"val", Num(1)>>, <<"_id", Num(0)>> >>)
    /\ call.ret = Undefined

\* C17: for a valid projection the output of dbProjection holds, with the
\* document's values, the listed fields of the document and no other field
\* when the values are truthy, and every field of the document except the
\* listed ones when they are falsy or the projection is empty.
C17_ProjectedFields ==
    (call.op = "dbProjection" /\ IsValidProjection(call.projection)) =>
        LET own    == DOMAIN call.doc.m
            listed == Listed(call.projection)
            kept   == IF \E k \in listed : Truthy(EntryGet(call.projection, k))
                      THEN own \cap listed
                      ELSE own \ listed
        IN  call.ret = Obj([k \in kept |-> call.doc.m[k]])

\* C18: with a projection that is not valid, findOne returns undefined and
\* find returns an empty array, whatever the number of documents that match.
C18_InvalidProjectionIsEmpty ==
    ~IsValidProjection(call.projection) =>
        /\ call.op = "findOne" => call.ret = Undefined
        /\ call.op = "find" => call.ret = Arr(<<>>)

----------------------------------------------------------------------------
(* Properties of the update engine *)

\* The call was dbUpdate with the one sub-operation of this operator
IsStep(operator) ==
    /\ call.op = "dbUpdate"
    /\ call.update.e[1][1] = operator

StepField == call.update.e[1][2].e[1][1]

StepValue == call.update.e[1][2].e[1][2]

\* The document's own fields before and after the call
Before == call.doc.m

After == docMap.docs["a"].m

\* C19: $inc{f: delta} with a delta that is no number is skipped; with a
\* numeric delta an absent f is set to delta (flag 1), a numeric f becomes
\* f + delta (flag 1), and an f of any other type is skipped, the field
\* unchanged and the flag 0.
C19_Inc ==
    IsStep("$inc") =>
        IF StepValue.t # "number" THEN After = Before /\ call.ret = Num(0)
        ELSE IF StepField \notin DOMAIN Before
        THEN After = SetProp(Before, StepField, StepValue) /\ call.ret = Num(1)
        ELSE IF Before[StepField].t = "number"
        THEN /\ After = SetProp(Before, StepField, Num(Before[StepField].n + StepValue.n))
             /\ call.ret = Num(1)
        ELSE After = Before /\ call.ret = Num(0)

\* C20: $rename{f: newName} moves the value of f to newName and deletes f
\* exactly when f is not _id, newName is a string, the document has no field
\* newName and has field f; in every other case the document is unchanged
\* and the flag is 0.
C20_Rename ==
    IsStep("$rename") =>
        IF /\ StepField # "_id"
           /\ StepValue.t = "string"
           /\ StepValue.s \notin DOMAIN Before
           /\ StepField \in DOMAIN Before
        THEN /\ After = DeleteProp(SetProp(Before, StepValue.s, Before[StepField]), StepField)
             /\ call.ret = Num(1)
        ELSE After = Before /\ call.ret = Num(0)

----------------------------------------------------------------------------
(* Properties of whole updates *)

\* The call was dbUpdate with an update that lists sub-operations
IsListed == call.op = "dbUpdate" /\ call.update \in ListedUpdates

\* The sub-operations of the call, in the order dbUpdate takes them
Steps == UpdateSteps(call.update.e, 1)

\* The document as the i-th sub-operation of the call finds it
DocAt(i) ==
    ApplySteps([doc |-> Before, n |-> 0, thrown |-> ""], SubSeq(Steps, 1, i - 1), 1).doc

\* The per-field rule lets the sub-operation act on a document with the
\* fields m
Permitted(m, operator, field, value) ==
    CASE operator = "$inc" ->
           value.t = "number" /\ (field \notin DOMAIN m \/ m[field].t = "number")
      [] operator = "$push" -> field \notin DOMAIN m \/ m[field].t = "array"
      [] operator = "$rename" ->
           /\ field # "_id"
           /\ value.t = "string"
           /\ value.s \notin DOMAIN m
           /\ field \in DOMAIN m
      [] operator = "$set" -> field # "_id"
      [] operator = "$unset" -> field # "_id" /\ field \in DOMAIN m /\ Truthy(value)

\* The i-th sub-operation of the call is one its rule lets act
Applies(i) == Permitted(DocAt(i), Steps[i][1], Steps[i][2], Steps[i][3])

\* The field of m, with undefined for a field m lacks
Field(m, field) == IF field \in DOMAIN m THEN m[field] ELSE Undefined

\* C21: the flag of dbUpdate is 1 when at least one sub-operation of the
\* update was applied and 0 otherwise; when it is 0 the document is as it
\* was; a sub-operation that fails leaves its field as it found it.
C21_FlagIsBoolean ==
    IsListed =>
        /\ call.ret \in {Num(0), Num(1)}
        /\ call.ret = Num(1) <=> \E i \in 1 .. Len(Steps) : Applies(i)
        /\ call.ret = Num(0) => After = Before
        /\ \A i \in 1 .. Len(Steps) :
               ~Applies(i) => Field(DocAt(i + 1), Steps[i][2]) = Field(DocAt(i), Steps[i][2])

\* The outcome of the sub-operations applied one update after another
RECURSIVE OneByOne(_, _, _)
OneByOne(st, steps, i) ==
    IF i > Len(steps) \/ st.thrown # "" THEN st
    ELSE LET r == dbUpdate(st.doc, OneStep(steps[i][1], steps[i][2], steps[i][3])) IN
         OneByOne([doc |-> r.doc, n |-> IF r.n = 1 THEN 1 ELSE st.n, thrown |-> r.thrown],
                  steps, i + 1)

\* C22: an update leaves the document as its sub-operations leave it when
\* applied one after another in the order listed, each to the outcome of the
\* one before; what succeeded stays when a later one fails or throws.
C22_ListedOrder ==
    IsListed =>
        LET r == OneByOne([doc |-> Before, n |-> 0, thrown |-> ""], Steps, 1) IN
        /\ After = r.doc
        /\ call.ret = IF r.thrown # "" THEN Throw(r.thrown) ELSE Num(r.n)

\* $inc, then $rename of the incremented field: the new name holds the
\* incremented value
C22_Witness ==
    /\ IsListed
    /\ Steps = << <<"$inc", "val", Num(1)>>, <<"$rename", "val", Str("name")>> >>
    /\ Before = [_id |-> Str("a"), val |-> Num(1)]
    /\ After = [_id |-> Str("a"), name |-> Num(2)]
    /\ call.ret = Num(1)

\* C23: an update of malformed shape makes dbUpdate and JsonDB.update
\* return 0 without raising and leaves the document as it was.
C23_MalformedRecovered ==
    (call.op \in {"dbUpdate", "update"} /\ call.update \in MalformedUpdates) =>
        /\ call.ret = Num(0)
        /\ After = Before

----------------------------------------------------------------------------
(* Properties of the id generator *)

\* The unreserved characters of a URL: letters, digits, - . _ ~
UrlSafe == (97 .. 122) \cup (65 .. 90) \cup (48 .. 57) \cup {45, 46, 95, 126}

\* The symbols of the alphabet
Symbols == {alphabet[i] : i \in 1 .. Len(alphabet)}

\* C24: an id that makeId returns has 16 characters, each of an alphabet of
\* 64 distinct URL-safe symbols, and is not an id of the store.
C24_IdShape ==
    call.op = "makeId" =>
        /\ Len(CharCodes(call.ret.s)) = 16
        /\ \A i \in 1 .. 16 : CharCodes(call.ret.s)[i] \in Symbols
        /\ Symbols \subseteq UrlSafe
        /\ Cardinality(Symbols) = Len(alphabet)
        /\ Cardinality(Symbols) = 64
        /\ call.ret.s \notin DOMAIN docMap.docs

\* Some string that uid can return is no id of the store
FreeIdExists == \E str \in UidStrings : str \notin DOMAIN docMap.docs

\* C30: under fair draws an insert without _id that has drawn an id ends,
\* the document stored, whenever some id is free; makeId draws again only
\* when the id drawn is an id of the store, and returns no id of the store.
C30_MakeIdTerminates ==
    /\ (call.op = "uid" /\ FreeIdExists) ~> (call.op = "insert")
    /\ [][(call.op = "uid" /\ call'.op = "uid") => call.ret.s \in DOMAIN docMap.docs]_vars
    /\ [](call.op = "makeId" => call.ret.s \notin DOMAIN docMap.docs)

----------------------------------------------------------------------------
(* Properties of persistence *)

\* The snapshot of the complete store: its ids, each with its full document
Snapshot(db) ==
    LET keys == ObjectKeys(db) IN
    Entries([i \in 1 .. Len(keys) |-> <<keys[i], db.docs[keys[i]]>>])

\* C25: an insert, remove or update that changes the store without a
\* truthy skipSave hands to persistence, before it ends, the snapshot of the
\* store as the operation leaves it; with a truthy skipSave it hands nothing.
C25_SavedWhenChanged ==
    [][(call = NoCall /\ call'.op \in {"insert", "remove", "update"}) =>
          IF Truthy(Option(call'.options, "skipSave")) THEN written' = Undefined
          ELSE docMap' # docMap =>
                 /\ written' = Snapshot(docMap')
                 /\ \A i \in 1 .. Len(written'.e) :
                        written'.e[i][2].m["_id"] = Str(written'.e[i][1])]_vars

----------------------------------------------------------------------------
(* Properties of the registry *)

\* A step that is the call of getDb
IsGetDb == call = NoCall /\ call'.op = "getDb"

\* The name the call of getDb looks up: its argument without the suffix ".json"
Looked == StripJson[call'.doc.s]

\* C26: getDb reads the snapshot of a name only when the registry holds no
\* store for it, and the store it then holds is the content of the
\* snapshot. While the registry holds a store for the name, getDb of the
\* name, with or without the suffix ".json", reads nothing and creates no
\* store, whatever the file has become: it returns a handle on the store the
\* registry holds, the one that every handle given out since the load works on.
C26_LoadedOnce ==
    [][IsGetDb =>
          IF Looked \in DOMAIN dbHolder
          THEN /\ stores' = stores
               /\ dbHolder' = dbHolder
               /\ call'.ret = JsonDB(Looked, dbHolder[Looked])
          ELSE (dbDir # "" /\ ReadFile(Looked).t = "entries") =>
                  /\ stores' = Append(stores, JSONParse(ReadFile(Looked)).db)
                  /\ call'.ret = JsonDB(Looked, dbHolder'[Looked])
                  /\ call'.ret.m["docMap"] = StoreRef(Len(stores'))]_vars

\* getDb("db.json") has returned a handle on the store loaded earlier, which
\* holds a document inserted through a handle, while the file is no snapshot
C26_Witness ==
    /\ call.op = "getDb"
    /\ call.doc = Str("db.json")
    /\ call.ret = JsonDB("db", StoreRef(1))
    /\ dbHolder = [db |-> StoreRef(1)]
    /\ "b" \in DOMAIN stores[1].docs
    /\ files["db"] = Unparsable

\* The call of getDb finds nothing to load: the directory was never named,
\* or the registry holds no store for the name and the file of the name is
\* absent or is not JSON
NothingToLoad ==
    \/ dbDir = ""
    \/ /\ Looked \notin DOMAIN dbHolder
       /\ ReadFile(Looked) \in {Undefined, Unparsable}

\* C27: getDb throws when the directory was never named, when the name has
\* no snapshot file, and when the file cannot be parsed; it then adds
\* nothing to the registry, creates no store and gives out no handle.
C27_GetDbThrows ==
    [][(IsGetDb /\ NothingToLoad) =>
          /\ IsThrow(call'.ret)
          /\ dbHolder' = dbHolder
          /\ stores' = stores
          /\ handles' = handles]_vars

\* A step that is the call of closeDb
IsCloseDb == call = NoCall /\ call'.op = "closeDb"

\* The handles that getDb gave out for one name hold one store
OneStorePerName ==
    \A h \in handles, g \in handles :
        h.m["dbName"] = g.m["dbName"] => h.m["docMap"] = g.m["docMap"]

\* closeDb(name) leaves no entry under the name getDb(name) looks up
EvictsLooked == [][IsCloseDb => Looked \notin DOMAIN dbHolder']_vars

\* An entry of the registry goes away or changes only in a call of closeDb
OnlyCloseEvicts ==
    [][(\E name \in DOMAIN dbHolder :
            name \notin DOMAIN dbHolder' \/ dbHolder'[name] # dbHolder[name])
          => IsCloseDb]_vars

\* C29: in every interleaving of getDb, closeDb, insert, update and remove,
\* the handles given out for one name, before and after a closeDb, work on
\* one store; closeDb(name) removes the entry that getDb(name) uses, also
\* for a name with the suffix ".json"; and an entry leaves the registry only
\* in a call of closeDb.
C29_OneStorePerName == []OneStorePerName /\ EvictsLooked /\ OnlyCloseEvicts

----------------------------------------------------------------------------
(* Properties of the dispatch facade *)

\* A step that is the call of callDbAction
IsApiCall == call = NoCall /\ call'.op = "callDbAction"

\* The arguments an action takes from the request besides dbName; the
\* options of insert may be left out
Required(actionName) ==
    CASE actionName = "count"   -> {"query"}
      [] actionName = "find"    -> {"query", "projection"}
      [] actionName = "findOne" -> {"query", "projection"}
      [] actionName = "insert"  -> {"doc"}
      [] actionName = "remove"  -> {"query", "options"}
      [] actionName = "update"  -> {"query", "update", "options"}
      [] OTHER                  -> {}

\* The argument of a request, undefined if the request has none
Argument(req, key) == IF key \in DOMAIN req.m THEN req.m[key] ELSE Undefined

\* A request of malformed shape: the name of no action, a dbName that is no
\* string, or a required argument that is no plain object
Malformed(req) ==
    \/ req.m["actionName"].s \notin {"count", "find", "findOne", "insert", "remove", "update", "save"}
    \/ req.m["dbName"].t # "string"
    \/ \E key \in Required(req.m["actionName"].s) : ~IsPlainObject(Argument(req, key))

\* {status, err, data} with the status 200, 400 or 500
IsApiRes(res) ==
    /\ res.t = "object"
    /\ DOMAIN res.m = {"status", "err", "data"}
    /\ res.m["status"] \in {Num(200), Num(400), Num(500)}

\* C28: callDbAction answers every request with {status, err, data} and a
\* status of 200, 400 or 500. A request of malformed shape gets 400 and
\* changes nothing in the registry, the stores and the files; a request of
\* good shape whose database getDb cannot give gets 500; 200 is the answer
\* to requests of good shape only.
C28_Normalized ==
    [][IsApiCall =>
          /\ IsApiRes(call'.ret)
          /\ Malformed(call'.doc) =>
                /\ call'.ret.m["status"] = Num(400)
                /\ UNCHANGED <<dbHolder, stores, files>>
          /\ (~Malformed(call'.doc) /\ IsThrow(getDb(call'.doc.m["dbName"].s).ret)) =>
                call'.ret.m["status"] = Num(500)
          /\ call'.ret.m["status"] = Num(200) => ~Malformed(call'.doc)]_vars

====
